---- MODULE Spec2Model ----
(***************************************************************************)
(* Model of github.com/cloudment/utils-go, package env: the .env file      *)
(* parser (file.go) and the struct binder (env.go, options.go, parsers.go, *)
(* helpers.go); and of GenerateOTP of package utils (random.go).           *)
(*                                                                         *)
(* Go strings and byte slices are sequences of one-character strings.      *)
(* Positions are 0-based as in the source: At(s, i) is s[i] and            *)
(* Slice(s, lo, hi) is s[lo:hi].  A nil byte slice and an empty one are    *)
(* both <<>>: the parser compares a slice with nil only where the non-nil  *)
(* alternative is non-empty (file.go:212) or cannot be nil (file.go:281).  *)
(***************************************************************************)
EXTENDS Integers, Sequences, FiniteSets, TLC

VARIABLES
    \* ---- .env file parser (parseEnvFileBytes) ----
    input,      \* the buffer handed to parseEnvFileBytes / getValue
    src,        \* the remainder still to be parsed
    envMap,     \* the map built so far (a function from keys to values)
    ferr,       \* the error returned ("nil" when none)
    fpc,        \* "loop" while parsing, "done" after the return, "idle" when unused
    fiter,      \* completed iterations of the parse loop
    gres,       \* the result of a getValue call: [value, rest, err]
    \* ---- struct binder (Parse, ParseWithOpts, ParseFromFile(s)IntoStruct) ----
    entry,      \* the entry point of the call
    cfgType,    \* the struct type of the target
    target,     \* the target struct's value
    before,     \* the target struct's value when the call started
    callOpts,   \* the Options of the call: [Env, Prefix, rawNil]
    rawEnvVars, \* the content of Options.rawEnvVars when it is not nil
    procEnv,    \* the process environment (os.Environ, os.Unsetenv)
    procBefore, \* the process environment when the call started
    berr,       \* the error returned (NoErr when none)
    bpc,        \* "parse" while binding, "done" after the return, "crashed", "idle"
    bidx,       \* the index of the next field of the target that parseStruct visits
    arg,        \* the value given as v: [k |-> "nil"], [k |-> "value", type] or
                \* [k |-> "ptr", isNil, type]
    again,      \* a second ParseWithOpts call on the result: [called, val, err]
    \* ---- several files (ParseFromFiles, ParseFromFilesIntoStruct) ----
    files,      \* the content of each file of the call, in argument order
    fileIdx,    \* the index of the file that is opened next
    merged,     \* ParseFromFilesIntoStruct's envMap
    pending,    \* the pairs of the current file the callback has not been given yet
    calls,      \* the callback's invocations so far: <<file index, key, value>>
    failOn,     \* the keys for which the callback returns an error
    mpc,        \* "open", "deliver", "done", or "idle" when unused
    merr,       \* the error returned ("nil" when none)
    \* ---- package utils: GenerateOTP ----
    otpArgs,    \* the call: [length, build, readerFails, n], n the number rand.Int draws
    otpRes,     \* what generateOTP returned: [otp, err]
    opc,        \* "call", "done" after the return, "crashed" after a panic, "idle"
    \* ---- parsers.go: one entry of the parsers table applied to a string ----
    parserArgs, \* the call: [kind, v]
    parserRes,  \* what the parser returned: [ok, val]
    ppc,        \* "call", "done" after the return, "idle"
    \* ---- two top-level calls running at the same time ----
    running     \* the state of each call: [entry, type, target, before, opts, raw, idx,
                \* err, pc]; <<>> when unused

mvars == <<files, fileIdx, merged, pending, calls, failOn, mpc, merr>>
ovars == <<otpArgs, otpRes, opc, parserArgs, parserRes, ppc, running>>
fvars == <<input, src, envMap, ferr, fpc, fiter, gres>>
bvars == <<entry, cfgType, target, before, callOpts, rawEnvVars, procEnv, procBefore,
           berr, bpc, bidx, arg, again>>
vars == <<input, src, envMap, ferr, fpc, fiter, gres,
          entry, cfgType, target, before, callOpts, rawEnvVars, procEnv, procBefore,
          berr, bpc, bidx, arg, again,
          files, fileIdx, merged, pending, calls, failOn, mpc, merr,
          otpArgs, otpRes, opc, parserArgs, parserRes, ppc, running>>

----------------------------------------------------------------------------
(* Bounds *)

MaxSrcLen == 5      \* longest .env buffer explored
MaxValLen == 5      \* longest getValue argument explored
MaxSliceLen == 2    \* longest slice of structs the target holds before the call
MaxEnvKeys == 2     \* most keys of the mapping in the calls on fields of every kind
MaxParts == 2       \* most parts of the value given to a slice or map field
MaxPad == 1         \* longest run of whitespace inserted around a key or a value
MaxLineLen == 4     \* longest text after the separator of a single line
MaxFiles == 2       \* most files given to ParseFromFiles / ParseFromFilesIntoStruct
MaxLines == 3       \* most lines of the files of one call, taken together

----------------------------------------------------------------------------
(* Characters *)

NL == "\n"
CR == "\r"
TAB == "\t"
SP == " "
BS == "\\"
CharComment == "#"
CharSingleQuote == "'"
CharDoubleQuote == "\""

ErrNil == "nil"
EmptyMap == [k \in {} |-> <<>>]

At(s, i) == s[i + 1]
Slice(s, lo, hi) == SubSeq(s, lo + 1, hi)
From(s, lo) == SubSeq(s, lo + 1, Len(s))

SetMin(S) == CHOOSE m \in S : \A n \in S : m <= n
SetMax(S) == CHOOSE m \in S : \A n \in S : n <= m

MapPut(m, k, v) == [x \in DOMAIN m \cup {k} |-> IF x = k THEN v ELSE m[x]]
MapDel(m, k) == [x \in DOMAIN m \ {k} |-> m[x]]

\* unicode.IsSpace on Latin-1: '\t', '\n', '\v', '\f', '\r', ' ', NEL, NBSP.
UnicodeSpace == {TAB, NL, "\f", CR, SP, "VT", "NEL", "NBSP"}

\* isSpace: as unicode.IsSpace without '\n'.
isSpace == {TAB, "VT", "\f", CR, SP, "NEL", "NBSP"}

IsUpperLetter(c) == c \in {"A", "B", "C", "D", "E", "F", "G", "H", "I", "J", "K", "L", "M",
                          "N", "O", "P", "Q", "R", "S", "T", "U", "V", "W", "X", "Y", "Z"}

\* Position of the first (last) element of s that is in C, or -1.
IndexIn(s, C) ==
    LET I == {i \in 0 .. Len(s) - 1 : At(s, i) \in C}
    IN  IF I = {} THEN -1 ELSE SetMin(I)

IndexNotIn(s, C) ==
    LET I == {i \in 0 .. Len(s) - 1 : At(s, i) \notin C}
    IN  IF I = {} THEN -1 ELSE SetMin(I)

LastIndexNotIn(s, C) ==
    LET I == {i \in 0 .. Len(s) - 1 : At(s, i) \notin C}
    IN  IF I = {} THEN -1 ELSE SetMax(I)

\* bytes.TrimLeftFunc / TrimRightFunc / TrimFunc, the function given as the set it accepts
TrimLeftFunc(s, C) == IF IndexNotIn(s, C) = -1 THEN <<>> ELSE From(s, IndexNotIn(s, C))

TrimRightFunc(s, C) == IF LastIndexNotIn(s, C) = -1 THEN <<>> ELSE Slice(s, 0, LastIndexNotIn(s, C) + 1)

TrimFunc(s, C) == TrimRightFunc(TrimLeftFunc(s, C), C)

indexOfChar(s, c) == IndexIn(s, {c})

indexOfChars(s, C) == IndexIn(s, C)

indexOfNonSpaceChar(s) == IndexNotIn(s, UnicodeSpace)

hasQuotePrefix(s) ==
    IF Len(s) = 0 THEN [quote |-> "", ok |-> FALSE]
    ELSE IF At(s, 0) = CharDoubleQuote \/ At(s, 0) = CharSingleQuote
         THEN [quote |-> At(s, 0), ok |-> TRUE]
         ELSE [quote |-> "", ok |-> FALSE]

----------------------------------------------------------------------------
(* file.go *)

\* getStart returning a comment line as it stands
getStartAtComment(s) ==
    IF indexOfNonSpaceChar(s) = -1 THEN <<>> ELSE From(s, indexOfNonSpaceChar(s))

RECURSIVE getStart(_)
getStart(s) ==
    LET pos == indexOfNonSpaceChar(s)
    IN  IF pos = -1 THEN <<>>
        ELSE LET t == From(s, pos)
             IN  IF At(t, 0) # CharComment THEN t
                 ELSE LET nl == indexOfChar(t, NL)
                      IN  IF nl = -1 THEN <<>> ELSE getStart(From(t, nl))

validateKey(key) ==
    IF key = <<>> \/ ~IsUpperLetter(At(key, 0))
    THEN "invalid key: must start with a capital letter"
    ELSE ErrNil

extractKey(s) ==
    LET i == IndexIn(s, {"=", ":"})
    IN  IF i = -1
        THEN [key |-> <<>>, rest |-> s, err |-> "key-value separator not found"]
        ELSE [key |-> TrimRightFunc(Slice(s, 0, i), isSpace), rest |-> From(s, i + 1), err |-> ErrNil]

getKey(s) ==
    LET r == extractKey(TrimLeftFunc(s, isSpace))
    IN  IF r.err # ErrNil THEN [key |-> <<>>, rest |-> r.rest, err |-> r.err]
        ELSE IF validateKey(r.key) # ErrNil
             THEN [key |-> <<>>, rest |-> r.rest, err |-> validateKey(r.key)]
             ELSE r

RECURSIVE unescapeFrom(_, _)
unescapeFrom(s, i) ==
    IF i >= Len(s) THEN <<>>
    ELSE IF At(s, i) = BS /\ i + 1 < Len(s)
         THEN (CASE At(s, i + 1) = "n" -> <<NL>>
                 [] At(s, i + 1) = "r" -> <<CR>>
                 [] OTHER -> <<At(s, i + 1)>>) \o unescapeFrom(s, i + 2)
         ELSE <<At(s, i)>> \o unescapeFrom(s, i + 1)

unescapeQuotes(s) == unescapeFrom(s, 0)

getValueWithinQuotes(s, quote) ==
    LET I == {i \in 1 .. Len(s) - 1 : At(s, i) = quote /\ At(s, i - 1) # BS}
    IN  IF I = {}
        THEN [value |-> <<>>, rest |-> <<>>, err |-> "unterminated closing quote"]
        ELSE LET i == SetMin(I)
                 isQuote == {quote}
                 value == TrimLeftFunc(TrimRightFunc(Slice(s, 0, i), isQuote), isQuote)
             IN  [value |-> IF quote = CharDoubleQuote THEN unescapeQuotes(value) ELSE value,
                  rest |-> From(s, i + 1),
                  err |-> ErrNil]

findEndOfLine(s) ==
    LET endOfLine == indexOfChars(s, {NL, CR})
    IN  IF endOfLine = -1 THEN Len(s) ELSE endOfLine

\* extractValueFromLine taking a "#" for a comment whatever precedes it
extractValueFromLineAnyHash(line) ==
    LET I == {i \in 1 .. Len(line) - 1 : At(line, i) = CharComment}
        endOfVar == IF I = {} THEN Len(line) ELSE SetMin(I)
    IN  TrimFunc(Slice(line, 0, endOfVar), isSpace)

extractValueFromLine(line) ==
    LET I == {i \in 1 .. Len(line) - 1 : At(line, i) = CharComment /\ At(line, i - 1) \in isSpace}
        endOfVar == IF I = {} THEN Len(line) ELSE SetMin(I)
    IN  TrimFunc(Slice(line, 0, endOfVar), isSpace)

getValueWithoutQuotes(s) ==
    LET endOfLine == findEndOfLine(s)
    IN  IF endOfLine = 0
        THEN [value |-> <<>>, rest |-> <<>>, err |-> ErrNil]
        ELSE [value |-> extractValueFromLine(Slice(s, 0, endOfLine)),
              rest |-> From(s, endOfLine),
              err |-> ErrNil]

getValue(s) ==
    LET q == hasQuotePrefix(s)
    IN  IF q.ok THEN getValueWithinQuotes(s, q.quote) ELSE getValueWithoutQuotes(s)

getKeyValue(s) ==
    LET k == getKey(s)
    IN  IF k.err # ErrNil
        THEN [key |-> <<>>, value |-> <<>>, rest |-> k.rest, err |-> k.err]
        ELSE LET v == getValue(k.rest)
             IN  IF v.err # ErrNil
                 THEN [key |-> <<>>, value |-> <<>>, rest |-> <<>>, err |-> v.err]
                 ELSE [key |-> k.key, value |-> v.value, rest |-> v.rest, err |-> ErrNil]

----------------------------------------------------------------------------
(* parseEnvFileBytes, one action per way an iteration of its loop ends *)

FileAlphabet == {"A", "B", "x", "=", ":", NL, SP, CharComment}
ValueAlphabet == {CharDoubleQuote, CharSingleQuote, BS, "n", "x", NL}

SeqsUpTo(A, n) == UNION {[1 .. k -> A] : k \in 0 .. n}

NoResult == [value |-> <<>>, rest |-> <<>>, err |-> ErrNil]

\* ParseFromFiles / ParseFromFilesIntoStruct not in use
FilesIdle ==
    /\ files = <<>>
    /\ fileIdx = 0
    /\ merged = EmptyMap
    /\ pending = EmptyMap
    /\ calls = <<>>
    /\ failOn = {}
    /\ mpc = "idle"
    /\ merr = ErrNil

\* GenerateOTP not in use
OTPIdle ==
    /\ otpArgs = [length |-> 0, build |-> "none", readerFails |-> FALSE, n |-> <<0>>]
    /\ otpRes = [otp |-> [neg |-> FALSE, mag |-> <<0>>], err |-> ErrNil]
    /\ opc = "idle"

\* no entry of parsers called on its own
ParserIdle ==
    /\ parserArgs = [kind |-> "none", v |-> <<>>]
    /\ parserRes = [ok |-> FALSE, val |-> [neg |-> FALSE, mag |-> <<0>>]]
    /\ ppc = "idle"

\* no two calls running at the same time
PairIdle == running = <<>>

BinderIdle ==
    /\ FilesIdle
    /\ entry = "none"
    /\ cfgType = [k |-> "struct", named |-> TRUE, fields |-> <<>>]
    /\ target = <<>>
    /\ before = <<>>
    /\ callOpts = [Env |-> EmptyMap, Prefix |-> <<>>, rawNil |-> TRUE]
    /\ rawEnvVars = EmptyMap
    /\ procEnv = EmptyMap
    /\ procBefore = EmptyMap
    /\ berr = <<>>
    /\ bpc = "idle"
    /\ bidx = 0
    /\ arg = [k |-> "nil"]
    /\ again = [called |-> FALSE, val |-> <<>>, err |-> <<>>]

FileUnused ==
    /\ input = <<>>
    /\ src = <<>>
    /\ envMap = EmptyMap
    /\ ferr = ErrNil
    /\ fpc = "idle"
    /\ fiter = 0
    /\ gres = NoResult

FileIdle == FileUnused /\ FilesIdle

InitFile ==
    /\ input \in SeqsUpTo(FileAlphabet, MaxSrcLen)
    /\ src = input
    /\ envMap = EmptyMap
    /\ ferr = ErrNil
    /\ fpc = "loop"
    /\ fiter = 0
    /\ gres = NoResult
    /\ BinderIdle
    /\ OTPIdle
    /\ ParserIdle
    /\ PairIdle

\* file.go:206-208
ParseEmpty ==
    /\ fpc = "loop" /\ fiter = 0 /\ Len(input) = 0
    /\ ferr' = "empty file"
    /\ fpc' = "done"
    /\ UNCHANGED <<input, src, envMap, fiter, gres>>
    /\ UNCHANGED bvars
    /\ UNCHANGED mvars
    /\ UNCHANGED ovars

\* file.go:211-214
ParseEnd ==
    /\ fpc = "loop" /\ Len(input) > 0
    /\ getStart(src) = <<>>
    /\ fpc' = "done"
    /\ src' = <<>>
    /\ UNCHANGED <<input, envMap, ferr, fiter, gres>>
    /\ UNCHANGED bvars
    /\ UNCHANGED mvars
    /\ UNCHANGED ovars

\* file.go:220-224
ParseError ==
    /\ fpc = "loop" /\ Len(input) > 0
    /\ getStart(src) # <<>>
    /\ LET r == getKeyValue(getStart(src))
       IN  /\ r.err # ErrNil
           /\ ferr' = r.err
           /\ envMap' = EmptyMap
           /\ src' = r.rest
    /\ fpc' = "done"
    /\ UNCHANGED <<input, fiter, gres>>
    /\ UNCHANGED bvars
    /\ UNCHANGED mvars
    /\ UNCHANGED ovars

\* file.go:220-226
ParsePair ==
    /\ fpc = "loop" /\ Len(input) > 0
    /\ getStart(src) # <<>>
    /\ LET r == getKeyValue(getStart(src))
       IN  /\ r.err = ErrNil
           /\ envMap' = MapPut(envMap, r.key, r.value)
           /\ src' = r.rest
    /\ fiter' = fiter + 1
    /\ UNCHANGED <<input, ferr, fpc, gres>>
    /\ UNCHANGED bvars
    /\ UNCHANGED mvars
    /\ UNCHANGED ovars

NextFile == ParseEmpty \/ ParseEnd \/ ParseError \/ ParsePair

SpecFile == InitFile /\ [][NextFile]_vars

----------------------------------------------------------------------------
(* getValue applied to a buffer that starts with a quote *)

InitValue ==
    /\ input \in {s \in SeqsUpTo(ValueAlphabet, MaxValLen) : hasQuotePrefix(s).ok}
    /\ src = input
    /\ envMap = EmptyMap
    /\ ferr = ErrNil
    /\ fpc = "value"
    /\ fiter = 0
    /\ gres = NoResult
    /\ BinderIdle
    /\ OTPIdle
    /\ ParserIdle
    /\ PairIdle

GetValueCall ==
    /\ fpc = "value"
    /\ gres' = getValue(input)
    /\ src' = getValue(input).rest
    /\ ferr' = getValue(input).err
    /\ fpc' = "valueDone"
    /\ UNCHANGED <<input, envMap, fiter>>
    /\ UNCHANGED bvars
    /\ UNCHANGED mvars
    /\ UNCHANGED ovars

NextValue == GetValueCall

SpecValue == InitValue /\ [][NextValue]_vars

----------------------------------------------------------------------------
(* getKeyValue applied to a single pair *)

Paddings == SeqsUpTo({SP, TAB}, MaxPad)

LineSeparators == {<<"=">>, <<":">>}

\* an unquoted, a single-quoted and a double-quoted value, with and without a space inside
LineValues ==
    {<<"x">>, <<"x", SP, "x">>,
     <<CharSingleQuote, "x", CharSingleQuote>>, <<CharSingleQuote, "x", SP, "x", CharSingleQuote>>,
     <<CharDoubleQuote, "x", CharDoubleQuote>>, <<CharDoubleQuote, "x", SP, "x", CharDoubleQuote>>}

\* the pair A<sep><value> with whitespace w[1] before the key, w[2] between key and
\* separator, w[3] between separator and value, w[4] after the value
Padded(w, sep, value) == w[1] \o <<"A">> \o w[2] \o sep \o w[3] \o value \o w[4]

PaddedLines ==
    {Padded(w, sep, value) : w \in [1 .. 4 -> Paddings], sep \in LineSeparators,
                             value \in LineValues}

LineAlphabet == {"x", CharComment, SP, TAB, CharSingleQuote, CharDoubleQuote, NL}

\* A= followed by any text
PlainLines == {<<"A", "=">> \o t : t \in SeqsUpTo(LineAlphabet, MaxLineLen)}

InitLine ==
    /\ input \in PaddedLines \cup PlainLines
    /\ src = input
    /\ envMap = EmptyMap
    /\ ferr = ErrNil
    /\ fpc = "line"
    /\ fiter = 0
    /\ gres = NoResult
    /\ BinderIdle
    /\ OTPIdle
    /\ ParserIdle
    /\ PairIdle

GetKeyValueCall ==
    /\ fpc = "line"
    /\ gres' = getKeyValue(input)
    /\ src' = getKeyValue(input).rest
    /\ ferr' = getKeyValue(input).err
    /\ fpc' = "lineDone"
    /\ UNCHANGED <<input, envMap, fiter>>
    /\ UNCHANGED bvars
    /\ UNCHANGED mvars
    /\ UNCHANGED ovars

NextLine == GetKeyValueCall

SpecLine == InitLine /\ [][NextLine]_vars

----------------------------------------------------------------------------
(* The struct binder: types, values, tags                                   *)
(*                                                                          *)
(* A type is [k |-> "string"], [k |-> "ptr", elem |-> T],                   *)
(* [k |-> "struct", named |-> BOOLEAN, fields |-> <<field, ...>>] or        *)
(* [k |-> "slice", elem |-> T].  A value of a string type is a string, of a *)
(* pointer type NilPtr or PtrTo(v), of a struct type the tuple of its       *)
(* fields' values, of a slice type the tuple of its elements.               *)
(* A type may also be [k |-> "int", bits |-> 8, 16 or 32], whose values are *)
(* integers, or [k |-> "map", key |-> T, elem |-> T], whose values are      *)
(* functions from keys to elements.                                         *)
(* A field (reflect.StructField) is [name, type, hasEnv, env, hasPrefix,    *)
(* envPrefix, envDefault], env being the env tag split at its commas; it    *)
(* has an envSeparator or envKeyValSeparator component when it carries that *)
(* tag.                                                                     *)

Digits == <<"0", "1", "2", "3", "4", "5", "6", "7", "8", "9">>
DigitSet == {Digits[i] : i \in 1 .. 10}
UpperLetters == {"A", "B", "C", "D", "E", "F", "G", "H", "I", "J", "K", "L", "M",
                 "N", "O", "P", "Q", "R", "S", "T", "U", "V", "W", "X", "Y", "Z"}
LowerLetters == {"a", "b", "c", "d", "e", "f", "g", "h", "i", "j", "k", "l", "m",
                 "n", "o", "p", "q", "r", "s", "t", "u", "v", "w", "x", "y", "z"}

NoErr == <<>>
Err(msg, about) == <<msg, about>>

NilPtr == [isNil |-> TRUE]
PtrTo(v) == [isNil |-> FALSE, elem |-> v]

RequiredEnv == "required"
ExpandEnv == "expand"
InitEnv == "init"
UnsetEnv == "unset"

RECURSIVE Zero(_)
Zero(t) ==
    CASE t.k = "string" -> <<>>
      [] t.k = "ptr" -> NilPtr
      [] t.k = "slice" -> <<>>
      [] t.k = "struct" -> [i \in 1 .. Len(t.fields) |-> Zero(t.fields[i].type)]
      [] t.k = "int" -> 0
      [] t.k = "map" -> EmptyMap
      [] t.k = "complex128" -> 0

MapGet(m, k) == IF k \in DOMAIN m THEN m[k] ELSE <<>>

HasPrefix(s, p) == Len(s) >= Len(p) /\ SubSeq(s, 1, Len(p)) = p
HasSuffix(s, p) == Len(s) >= Len(p) /\ SubSeq(s, Len(s) - Len(p) + 1, Len(s)) = p

\* strings.SplitN(s, sep, 2) for a one-character sep
SplitN2(s, sep) ==
    IF indexOfChar(s, sep) = -1 THEN <<s>>
    ELSE <<Slice(s, 0, indexOfChar(s, sep)), From(s, indexOfChar(s, sep) + 1)>>

\* strings.Index(s, sep) for a non-empty sep: 0-based, -1 when absent
Index(s, sep) ==
    IF \E i \in 1 .. Len(s) - Len(sep) + 1 : SubSeq(s, i, i + Len(sep) - 1) = sep
    THEN (CHOOSE i \in 1 .. Len(s) - Len(sep) + 1 :
              /\ SubSeq(s, i, i + Len(sep) - 1) = sep
              /\ \A j \in 1 .. i - 1 : SubSeq(s, j, j + Len(sep) - 1) # sep) - 1
    ELSE -1

\* strings.Split(s, sep) for a non-empty sep
RECURSIVE Split(_, _)
Split(s, sep) ==
    IF Index(s, sep) = -1 THEN <<s>>
    ELSE <<Slice(s, 0, Index(s, sep))>> \o Split(From(s, Index(s, sep) + Len(sep)), sep)

\* strings.SplitN(s, sep, 2) for a non-empty sep
SplitNTwo(s, sep) ==
    IF Index(s, sep) = -1 THEN <<s>>
    ELSE <<Slice(s, 0, Index(s, sep)), From(s, Index(s, sep) + Len(sep))>>

DigitVal(c) == CHOOSE d \in 0 .. 9 : Digits[d + 1] = c

RECURSIVE DigitsVal(_)
DigitsVal(s) == IF Len(s) = 0 THEN 0 ELSE 10 * DigitsVal(SubSeq(s, 1, Len(s) - 1)) + DigitVal(s[Len(s)])

\* strconv.Atoi: an optional sign, then one or more decimal digits
Atoi(s) ==
    LET body == IF Len(s) > 0 /\ s[1] \in {"+", "-"} THEN Tail(s) ELSE s
    IN  IF Len(body) = 0 \/ \E i \in 1 .. Len(body) : body[i] \notin DigitSet
        THEN [ok |-> FALSE, val |-> 0]
        ELSE [ok |-> TRUE, val |-> IF s[1] = "-" THEN 0 - DigitsVal(body) ELSE DigitsVal(body)]

\* the largest value of a signed integer of the width
MaxInt(bitSize) == IF bitSize = 8 THEN 127 ELSE IF bitSize = 16 THEN 32767 ELSE 2147483647

\* strconv.ParseInt(s, 10, bitSize): the syntax of Atoi, then the range of the width
ParseInt(s, bitSize) ==
    IF ~Atoi(s).ok THEN [ok |-> FALSE, val |-> 0]
    ELSE IF Atoi(s).val < (0 - MaxInt(bitSize)) - 1 \/ Atoi(s).val > MaxInt(bitSize)
    THEN [ok |-> FALSE, val |-> 0]
    ELSE [ok |-> TRUE, val |-> Atoi(s).val]

RECURSIVE NatToStr(_)
NatToStr(n) == IF n < 10 THEN <<Digits[n + 1]>> ELSE NatToStr(n \div 10) \o <<Digits[(n % 10) + 1]>>

\* fmt.Sprintf("%d", n)
Itoa(n) == IF n < 0 THEN <<"-">> \o NatToStr(0 - n) ELSE NatToStr(n)

----------------------------------------------------------------------------
(* os.Expand with Options.getRawEnv as the mapping                          *)
(*                                                                          *)
(* getRawEnv calls os.Expand on the value it finds, which calls getRawEnv   *)
(* again for every reference in it.  The maps do not change during one      *)
(* expansion, so a chain of nested getRawEnv calls longer than the number   *)
(* of names with a value repeats a name and never ends: Go's stack grows    *)
(* until the runtime aborts the process.  Overflow stands for that outcome. *)

Overflow == <<"fatal error: stack overflow">>

Cat(a, b) == IF a = Overflow \/ b = Overflow THEN Overflow ELSE a \o b

isShellSpecialVar(c) == c \in {"*", "#", "$", "@", "!", "?", "-"} \cup DigitSet

isAlphaNum(c) == c = "_" \/ c \in DigitSet \/ c \in LowerLetters \/ c \in UpperLetters

\* os.getShellName: the name that follows a "$" and the number of bytes it takes
getShellName(s) ==
    IF s[1] = "{"
    THEN IF Len(s) > 2 /\ isShellSpecialVar(s[2]) /\ s[3] = "}"
         THEN [name |-> <<s[2]>>, w |-> 3]
         ELSE LET i == IndexIn(Tail(s), {"}"}) + 1
              IN  IF i = 0 THEN [name |-> <<>>, w |-> 1]
                  ELSE IF i = 1 THEN [name |-> <<>>, w |-> 2]
                  ELSE [name |-> Slice(s, 1, i), w |-> i + 1]
    ELSE IF isShellSpecialVar(s[1]) THEN [name |-> <<s[1]>>, w |-> 1]
    ELSE LET I == {i \in 0 .. Len(s) - 1 : ~isAlphaNum(At(s, i))}
             n == IF I = {} THEN Len(s) ELSE SetMin(I)
         IN  [name |-> Slice(s, 0, n), w |-> n]

RECURSIVE ExpandFrom(_, _, _, _, _)

\* Options.getRawEnv(name) at nesting depth d, over rawEnvVars rawm and Env env
getRawEnv(name, rawm, env, d) ==
    IF d > Cardinality(DOMAIN rawm \cup DOMAIN env) + 1 THEN Overflow
    ELSE ExpandFrom(IF MapGet(rawm, name) = <<>> THEN MapGet(env, name) ELSE MapGet(rawm, name),
                    0, rawm, env, d + 1)

\* what os.Expand appends for the reference n = getShellName(...)
ExpandPiece(n, rawm, env, d) ==
    IF n.name = <<>> /\ n.w > 0 THEN <<>>
    ELSE IF n.name = <<>> THEN <<"$">>
    ELSE getRawEnv(n.name, rawm, env, d)

\* os.Expand(s, getRawEnv) from position j on
ExpandFrom(s, j, rawm, env, d) ==
    IF j >= Len(s) THEN <<>>
    ELSE IF At(s, j) = "$" /\ j + 1 < Len(s)
         THEN Cat(ExpandPiece(getShellName(From(s, j + 1)), rawm, env, d),
                  ExpandFrom(s, j + 1 + getShellName(From(s, j + 1)).w, rawm, env, d))
         ELSE Cat(<<At(s, j)>>, ExpandFrom(s, j + 1, rawm, env, d))

Expand(s, rawm, env) == ExpandFrom(s, 0, rawm, env, 1)

----------------------------------------------------------------------------
(* options.go *)

\* An Options value is [Env, Prefix, rawNil].  What the calls share is threaded
\* through them as raw = [vars, environ]: the content of a non-nil rawEnvVars map,
\* which every copy of the Options points to, and the process environment.

\* withPrefix dropping the prefix accumulated so far
withPrefixReplacing(opts, sf) == [opts EXCEPT !.Prefix = sf.envPrefix]

withPrefix(opts, sf) == [opts EXCEPT !.Prefix = opts.Prefix \o sf.envPrefix]

withSliceEnvPrefix(opts, index) == [opts EXCEPT !.Prefix = opts.Prefix \o Itoa(index) \o <<"_">>]

filterPrefixedEnvVars(opts) ==
    {Atoi(SplitN2(From(e, Len(opts.Prefix)), "_")[1]).val :
        e \in {e \in DOMAIN opts.Env :
                 /\ HasPrefix(e, opts.Prefix)
                 /\ LET parts == SplitN2(From(e, Len(opts.Prefix)), "_")
                    IN  /\ Len(parts) = 2 /\ parts[1] # <<>> /\ parts[2] # <<>>
                        /\ Atoi(parts[1]).ok}}

ensureTrailingUnderscore(prefix) ==
    IF prefix # <<>> /\ ~HasSuffix(prefix, <<"_">>) THEN prefix \o <<"_">> ELSE prefix

findMaxIndex(prefixedEnvMap) ==
    IF {i \in prefixedEnvMap : i > 0} = {} THEN 0 ELSE SetMax(prefixedEnvMap)

isSliceOfStructs(sf) ==
    LET t == IF sf.type.k = "ptr" THEN sf.type.elem ELSE sf.type
    IN  t.k = "slice" /\ t.elem.k = "struct"

----------------------------------------------------------------------------
(* env.go *)

IgnoredTags(ownKey) ==
    [OwnKey |-> ownKey, Key |-> <<>>, Default |-> <<>>, Required |-> FALSE, Ignored |-> TRUE,
     Init |-> FALSE, Expand |-> FALSE, Unset |-> FALSE]

parseFieldTags(sf, opts) ==
    LET ownKey == sf.env[1]
        tags == {sf.env[i] : i \in 2 .. Len(sf.env)}
    IN  IF (ownKey = <<"-">> \/ ~sf.hasEnv) /\ ~sf.hasPrefix
        THEN IgnoredTags(ownKey)
        ELSE [OwnKey |-> ownKey,
              Key |-> opts.Prefix \o ownKey,
              Default |-> sf.envDefault,
              Required |-> RequiredEnv \in tags,
              Ignored |-> FALSE,
              Init |-> InitEnv \in tags,
              Expand |-> ExpandEnv \in tags,
              Unset |-> UnsetEnv \in tags]

\* resolveValue once val is looked up, defaulted and expanded
resolveValueWith(tags, opts, raw, val) ==
    IF val = Overflow THEN [val |-> <<>>, raw |-> raw, err |-> Overflow]
    ELSE [val |-> IF tags.Required /\ (tags.OwnKey = <<>> \/ val = <<>>) THEN <<>> ELSE val,
          raw |-> IF opts.rawNil THEN raw
                  ELSE [raw EXCEPT !.vars = MapPut(raw.vars, tags.OwnKey, val)],
          err |-> IF tags.Required /\ (tags.OwnKey = <<>> \/ val = <<>>)
                  THEN Err("required environment variable not set: ", tags.Key)
                  ELSE NoErr]

\* lookupValue taking the default for an absent key only, not for an empty value
lookupValueAbsentOnly(tags, opts) ==
    IF (tags.Key = <<>> \/ tags.Key \notin DOMAIN opts.Env) /\ tags.Default # <<>>
    THEN tags.Default ELSE MapGet(opts.Env, tags.Key)

\* the value of resolveValue before expansion: the mapping's, or the default
lookupValue(tags, opts) ==
    IF (tags.Key = <<>> \/ tags.Key \notin DOMAIN opts.Env \/ MapGet(opts.Env, tags.Key) = <<>>)
       /\ tags.Default # <<>>
    THEN tags.Default ELSE MapGet(opts.Env, tags.Key)

\* The result is [val, raw, err]; raw is the shared state afterwards.
\* A nil rawEnvVars is replaced by a new map in this call's copy of opts only.
resolveValue(tags, opts, raw) ==
    resolveValueWith(tags, opts, raw,
        IF tags.Expand
        THEN Expand(lookupValue(tags, opts), IF opts.rawNil THEN EmptyMap ELSE raw.vars, opts.Env)
        ELSE lookupValue(tags, opts))

\* asTextUnmarshaler, for the types modelled (none implements TextUnmarshaler):
\* its one effect is to allocate a nil pointer.
asTextUnmarshaler(sf, v) ==
    IF sf.type.k = "ptr" /\ v.isNil THEN PtrTo(Zero(sf.type.elem)) ELSE v

initialisePointer(sf, v) ==
    IF sf.type.k # "ptr" \/ ~v.isNil THEN v ELSE PtrTo(Zero(sf.type.elem))

\* resolvePointer, as the type applyParser is given
resolvePointer(sf) == IF sf.type.k = "ptr" THEN sf.type.elem ELSE sf.type

\* the kind table: the kinds modelled that have a parser
HasParser(t) == t.k \in {"string", "int"}

\* parsers[t.Kind()](val): the identity for strings, ParseInt of the width for ints
ParseKind(t, val) ==
    IF t.k = "string" THEN [ok |-> TRUE, val |-> val] ELSE ParseInt(val, t.bits)

\* applyParser: [ok, val, err]; no type modelled is in typeParsers
applyParser(sf, v, val) ==
    IF ~HasParser(resolvePointer(sf)) THEN [ok |-> FALSE, val |-> v, err |-> NoErr]
    ELSE IF ~ParseKind(resolvePointer(sf), val).ok
    THEN [ok |-> FALSE, val |-> v, err |-> Err("failed to parse value: ", val)]
    ELSE [ok |-> TRUE, err |-> NoErr,
          val |-> IF sf.type.k = "ptr" THEN PtrTo(ParseKind(resolvePointer(sf), val).val)
                  ELSE ParseKind(resolvePointer(sf), val).val]

\* sf.Tag.Get(name): empty when the field has no such tag
TagGet(sf, name) == IF name \in DOMAIN sf THEN sf[name] ELSE <<>>

SeparatorEnv == "envSeparator"
KeyValSeparatorEnv == "envKeyValSeparator"

getSeparator(sf) == IF TagGet(sf, SeparatorEnv) = <<>> THEN <<",">> ELSE TagGet(sf, SeparatorEnv)

getSeparators(sf) ==
    [separator |-> IF TagGet(sf, SeparatorEnv) = <<>> THEN <<",">> ELSE TagGet(sf, SeparatorEnv),
     keyValSeparator |-> IF TagGet(sf, KeyValSeparatorEnv) = <<>> THEN <<":">>
                         ELSE TagGet(sf, KeyValSeparatorEnv)]

\* getParserFunc: whether elemType has a parser
getParserFunc(elemType) == HasParser(elemType)

\* parseSliceElements in the reverse order
parseSliceElementsReversed(parts, elemType, elemKind) ==
    IF \E i \in 1 .. Len(parts) : ~ParseKind(elemType, parts[i]).ok
    THEN [val |-> <<>>,
          err |-> Err("parse", parts[CHOOSE i \in 1 .. Len(parts) :
                                     /\ ~ParseKind(elemType, parts[i]).ok
                                     /\ \A j \in 1 .. i - 1 : ParseKind(elemType, parts[j]).ok])]
    ELSE [val |-> [i \in 1 .. Len(parts) |->
                      IF elemKind.k = "ptr"
                      THEN PtrTo(ParseKind(elemType, parts[Len(parts) + 1 - i]).val)
                      ELSE ParseKind(elemType, parts[Len(parts) + 1 - i]).val],
          err |-> NoErr]

\* parseSliceElements: the parts parsed in order, up to the first that fails
parseSliceElements(parts, elemType, elemKind) ==
    IF \E i \in 1 .. Len(parts) : ~ParseKind(elemType, parts[i]).ok
    THEN [val |-> <<>>,
          err |-> Err("parse", parts[CHOOSE i \in 1 .. Len(parts) :
                                     /\ ~ParseKind(elemType, parts[i]).ok
                                     /\ \A j \in 1 .. i - 1 : ParseKind(elemType, parts[j]).ok])]
    ELSE [val |-> [i \in 1 .. Len(parts) |->
                      IF elemKind.k = "ptr" THEN PtrTo(ParseKind(elemType, parts[i]).val)
                      ELSE ParseKind(elemType, parts[i]).val],
          err |-> NoErr]

\* handleSlice after parseSliceElements returned r
handleSliceWithAppend(v, r) ==
    IF r.err # NoErr THEN [val |-> v, err |-> r.err] ELSE [val |-> v \o r.val, err |-> NoErr]

handleSliceWith(v, r) == IF r.err # NoErr THEN [val |-> v, err |-> r.err] ELSE r

\* handleSlice: [val, err]; no type modelled implements TextUnmarshaler
handleSlice(sf, v, val) ==
    LET elemType == IF sf.type.elem.k = "ptr" THEN sf.type.elem.elem ELSE sf.type.elem
    IN  IF ~getParserFunc(elemType) THEN [val |-> v, err |-> Err("unsupported type", sf.name)]
        ELSE handleSliceWith(v, parseSliceElements(Split(val, getSeparator(sf)), elemType,
                                                   sf.type.elem))

\* reflect.Value.SetMapIndex keeping the entry a key already has
SetMapIndexKeepingFirst(m, k, e) == IF k \in DOMAIN m THEN m ELSE MapPut(m, k, e)

SetMapIndex(m, k, e) == MapPut(m, k, e)

\* handleMap's loop from part i on, result holding the pairs set so far
RECURSIVE handleMapFrom(_, _, _, _, _)
handleMapFrom(parts, i, result, mapType, keyValSeparator) ==
    IF i > Len(parts) THEN [val |-> result, err |-> NoErr]
    ELSE LET pairs == SplitNTwo(parts[i], keyValSeparator)
         IN  IF Len(pairs) # 2
             THEN [val |-> result, err |-> Err("should be in key/value format", parts[i])]
             ELSE IF ~ParseKind(mapType.key, pairs[1]).ok
             THEN [val |-> result, err |-> Err("failed to parse key", pairs[1])]
             ELSE IF ~ParseKind(mapType.elem, pairs[2]).ok
             THEN [val |-> result, err |-> Err("failed to parse value", pairs[2])]
             ELSE handleMapFrom(parts, i + 1,
                                SetMapIndex(result, ParseKind(mapType.key, pairs[1]).val,
                                            ParseKind(mapType.elem, pairs[2]).val),
                                mapType, keyValSeparator)

\* getKeyAndElemParsers: the error, if any
getKeyAndElemParsers(mapType) ==
    IF ~HasParser(mapType.key) THEN Err("unsupported key type", <<>>)
    ELSE IF ~HasParser(mapType.elem) THEN Err("unsupported element type", <<>>)
    ELSE NoErr

\* handleMap after its loop returned r
handleMapWith(v, r) == IF r.err # NoErr THEN [val |-> v, err |-> r.err] ELSE r

\* handleMap: [val, err]; the field is set only when every pair was taken
handleMap(sf, v, val) ==
    IF getKeyAndElemParsers(sf.type) # NoErr
    THEN [val |-> v, err |-> getKeyAndElemParsers(sf.type)]
    ELSE handleMapWith(v, handleMapFrom(Split(val, getSeparators(sf).separator), 1, EmptyMap,
                                        sf.type, getSeparators(sf).keyValSeparator))

\* handleSpecialTypes: [val, err], by the kind of the field itself
handleSpecialTypesSilent(sf, v, val) ==
    IF sf.type.k = "slice" THEN handleSlice(sf, v, val)
    ELSE IF sf.type.k = "map" THEN handleMap(sf, v, val)
    ELSE [val |-> v, err |-> NoErr]

handleSpecialTypes(sf, v, val) ==
    IF sf.type.k = "slice" THEN handleSlice(sf, v, val)
    ELSE IF sf.type.k = "map" THEN handleMap(sf, v, val)
    ELSE [val |-> v, err |-> Err("unsupported type: ", sf.name)]

\* handleUnset: os.Unsetenv(tags.Key) when the field is tagged unset
handleUnset(tags, raw) ==
    IF ~tags.Unset \/ tags.Key = <<>> THEN raw
    ELSE [raw EXCEPT !.environ = MapDel(raw.environ, tags.Key)]

\* setField after resolveValue returned r
setFieldWith(sf, v, tags, r) ==
    IF r.err # NoErr THEN [val |-> v, raw |-> r.raw, err |-> r.err]
    ELSE IF r.val = <<>> THEN [val |-> v, raw |-> r.raw, err |-> NoErr]
    ELSE IF applyParser(sf, asTextUnmarshaler(sf, v), r.val).ok
    THEN [val |-> applyParser(sf, asTextUnmarshaler(sf, v), r.val).val,
          raw |-> handleUnset(tags, r.raw), err |-> NoErr]
    ELSE IF applyParser(sf, asTextUnmarshaler(sf, v), r.val).err # NoErr
    THEN [val |-> asTextUnmarshaler(sf, v), raw |-> handleUnset(tags, r.raw),
          err |-> applyParser(sf, asTextUnmarshaler(sf, v), r.val).err]
    ELSE [val |-> handleSpecialTypes(sf, asTextUnmarshaler(sf, v), r.val).val,
          raw |-> handleUnset(tags, r.raw),
          err |-> handleSpecialTypes(sf, asTextUnmarshaler(sf, v), r.val).err]

\* The result is [val, raw, err]: the field's value afterwards.
setField(sf, v, tags, opts, raw) == setFieldWith(sf, v, tags, resolveValue(tags, opts, raw))

RECURSIVE parseStruct(_, _, _, _)
RECURSIVE parseFieldsFrom(_, _, _, _, _)
RECURSIVE parseField(_, _, _, _)
RECURSIVE populateFrom(_, _, _, _, _, _, _, _)

\* Results are [val, raw, err]: the value afterwards, the shared state afterwards,
\* and the error.  Each operator that continues after a recursive call
\* takes the call's result as its last argument.
Result(v, raw, err) == [val |-> v, raw |-> raw, err |-> err]

\* a pointer to the struct that a call on its element left behind
AsPointer(r) == Result(PtrTo(r.val), r.raw, r.err)

\* parseInterface on a non-nil pointer to a struct of type t holding sv
parseInterface(t, sv, opts, raw) == parseStruct(t, sv, opts, raw)

\* parseStruct's loop after parseField returned r for field i; fields already set
\* stay set on an error.
parseFieldsNext(t, sv, opts, i, r) ==
    IF r.err # NoErr THEN Result([sv EXCEPT ![i] = r.val], r.raw, r.err)
    ELSE parseFieldsFrom(t, [sv EXCEPT ![i] = r.val], opts, r.raw, i + 1)

parseFieldsFrom(t, sv, opts, raw, i) ==
    IF i > Len(t.fields) THEN Result(sv, raw, NoErr)
    ELSE parseFieldsNext(t, sv, opts, i, parseField(t.fields[i], sv[i], opts, raw))

parseStruct(t, sv, opts, raw) == parseFieldsFrom(t, sv, opts, raw, 1)

handlePointerStruct(sf, v, opts, raw) ==
    IF sf.type.k = "ptr" /\ ~v.isNil /\ sf.type.elem.k = "struct"
    THEN AsPointer(parseInterface(sf.type.elem, v.elem, withPrefix(opts, sf), raw))
    ELSE IF sf.type.k = "struct" /\ ~sf.type.named
    THEN parseInterface(sf.type, v, withPrefix(opts, sf), raw)
    ELSE Result(v, raw, NoErr)

\* The number of elements of the field that initialiseSlice and populateSlice see:
\* v.Len() for a slice, 0 when the field is a pointer to a slice.
initialisedLen(sf, v) == IF sf.type.k = "ptr" THEN 0 ELSE Len(v)

\* initialiseSlice: the capacity (and length) of the new slice
initialiseSlice(sf, v, maxIndex) ==
    IF initialisedLen(sf, v) > maxIndex + 1 THEN initialisedLen(sf, v) ELSE maxIndex + 1

\* the element type of a slice field or of a pointer-to-slice field
sliceElemType(sf) == (IF sf.type.k = "ptr" THEN sf.type.elem ELSE sf.type).elem

\* populateSlice's loop after parseStruct returned r for element i
populateNext(i, result, sf, v, prefixedEnvMap, capacity, opts, r) ==
    IF r.err # NoErr THEN Result([result EXCEPT ![i + 1] = r.val], r.raw, r.err)
    ELSE populateFrom(i + 1, [result EXCEPT ![i + 1] = r.val], sf, v,
                      prefixedEnvMap, capacity, opts, r.raw)

\* populateItem without the copy of the elements the field already had
populateItemNoCopy(i, result, sf, v) == At(result, i)

\* item.Set(v.Index(i)) for the elements the field already had
populateItem(i, result, sf, v) == IF i < initialisedLen(sf, v) THEN At(v, i) ELSE At(result, i)

\* populateSlice's loop from index i on; result is the new slice so far
populateFrom(i, result, sf, v, prefixedEnvMap, capacity, opts, raw) ==
    IF i >= capacity THEN Result(result, raw, NoErr)
    ELSE populateNext(i, result, sf, v, prefixedEnvMap, capacity, opts,
             IF i \notin prefixedEnvMap
             THEN Result(populateItem(i, result, sf, v), raw, NoErr)
             ELSE parseStruct(sliceElemType(sf), populateItem(i, result, sf, v),
                              withSliceEnvPrefix(opts, i), raw))

populateSlice(result, sf, v, prefixedEnvMap, capacity, opts, raw) ==
    populateFrom(0, result, sf, v, prefixedEnvMap, capacity, opts, raw)

\* updateReference: the field's value once result is stored through it
updateReference(sf, v, result) ==
    IF sf.type.k = "ptr" THEN (IF v.isNil THEN v ELSE PtrTo(result)) ELSE result

sliceOfStructsDonePartial(sf, v, r) == Result(updateReference(sf, v, r.val), r.raw, r.err)

\* parseSliceOfStructs after populateSlice returned r
sliceOfStructsDone(sf, v, r) ==
    IF r.err # NoErr THEN Result(v, r.raw, r.err)
    ELSE Result(updateReference(sf, v, r.val), r.raw, NoErr)

\* parseSliceOfStructs once the prefix has its trailing underscore
sliceOfStructsWith(sf, v, opts, raw, prefixedEnvMap) ==
    IF prefixedEnvMap = {} THEN Result(v, raw, NoErr)
    ELSE sliceOfStructsDone(sf, v,
             populateSlice([i \in 1 .. initialiseSlice(sf, v, findMaxIndex(prefixedEnvMap))
                              |-> Zero(sliceElemType(sf))],
                           sf, v, prefixedEnvMap,
                           initialiseSlice(sf, v, findMaxIndex(prefixedEnvMap)), opts, raw))

parseSliceOfStructs(sf, v, opts, raw) ==
    sliceOfStructsWith(sf, v, [opts EXCEPT !.Prefix = ensureTrailingUnderscore(opts.Prefix)], raw,
        filterPrefixedEnvVars([opts EXCEPT !.Prefix = ensureTrailingUnderscore(opts.Prefix)]))

handleStructOrSlice(sf, v, opts, tags, raw) ==
    IF sf.type.k = "ptr" /\ ~v.isNil /\ sf.type.elem.k = "struct"
    THEN AsPointer(parseInterface(sf.type.elem, v.elem, withPrefix(opts, sf), raw))
    ELSE IF sf.type.k = "struct"
    THEN parseStruct(sf.type, v, withPrefix(opts, sf), raw)
    ELSE IF isSliceOfStructs(sf)
    THEN parseSliceOfStructs(sf, v, withPrefix(opts, sf), raw)
    ELSE IF tags.Init /\ sf.type.k = "ptr" /\ v.isNil
    THEN Result(PtrTo(Zero(sf.type.elem)), raw, NoErr)
    ELSE Result(v, raw, NoErr)

\* parseField after setField returned st
parseFieldAfterSet(sf, opts, tags, st) ==
    IF st.err # NoErr THEN st
    ELSE handleStructOrSlice(sf, initialisePointer(sf, st.val), opts, tags, st.raw)

\* parseField after handlePointerStruct returned hp
parseFieldAfterPointer(sf, opts, tags, hp) ==
    IF hp.err # NoErr THEN hp
    ELSE IF tags.Ignored THEN hp
    ELSE parseFieldAfterSet(sf, opts, tags, setField(sf, hp.val, tags, opts, hp.raw))

parseField(sf, v, opts, raw) ==
    parseFieldAfterPointer(sf, opts, parseFieldTags(sf, opts), handlePointerStruct(sf, v, opts, raw))

----------------------------------------------------------------------------
(* The calls explored *)

StringT == [k |-> "string"]
PtrT(t) == [k |-> "ptr", elem |-> t]
SliceT(t) == [k |-> "slice", elem |-> t]
StructT(named, fields) == [k |-> "struct", named |-> named, fields |-> fields]
IntT(bits) == [k |-> "int", bits |-> bits]
MapT(key, elem) == [k |-> "map", key |-> key, elem |-> elem]
\* complex128: a kind without an entry in parsers
ComplexT == [k |-> "complex128"]

\* What a caller passes as v: nothing (a nil interface), a value that is not a pointer,
\* or a pointer, nil or not, to a value of some type
NilArg == [k |-> "nil"]
ValueArg(t) == [k |-> "value", type |-> t]
PtrArg(isNil, t) == [k |-> "ptr", isNil |-> isNil, type |-> t]
NotAgain == [called |-> FALSE, val |-> <<>>, err |-> <<>>]

\* ParseWithOpts: v == nil || reflect.ValueOf(v).Kind() != reflect.Ptr
isPointerArg(a) == a.k = "ptr"

isStructPointerOrNil(a) == a.k = "ptr" /\ a.type.k = "struct"

\* parseInterface: !(v.IsNil() || v.Kind() != reflect.Ptr || v.Elem().Kind() != reflect.Struct)
isStructPointer(a) == ~a.isNil /\ a.k = "ptr" /\ a.type.k = "struct"

Fld(name, type, hasEnv, env, hasPrefix, envPrefix, envDefault) ==
    [name |-> name, type |-> type, hasEnv |-> hasEnv, env |-> env,
     hasPrefix |-> hasPrefix, envPrefix |-> envPrefix, envDefault |-> envDefault]

\* type Inner struct { Foo string `env:"F"` }
InnerFields == <<Fld("Foo", StringT, TRUE, <<<<"F">>>>, FALSE, <<>>, <<>>)>>
InnerT == StructT(TRUE, InnerFields)

RefA == <<"$", "{", "A", "}">>
RefB == <<"$", "{", "B", "}">>

\* The mappings with at most n keys, taken from keys, and values from vals
EnvsOver(keys, vals, n) == UNION {[K -> vals] : K \in {K \in SUBSET keys : Cardinality(K) <= n}}

\* The i-th element a slice holds before the call: Foo = "o<i>"
OldElem(i) == <<<<"o">> \o Itoa(i)>>

\* The values a field of type t can hold before the call
ValuesBefore(t) ==
    CASE t.k = "string" -> {<<>>, <<"o">>}
      [] t.k = "struct" -> {Zero(t), <<<<"o">>>>}
      [] t.k = "slice" -> {[i \in 1 .. n |-> OldElem(i - 1)] : n \in 0 .. MaxSliceLen}
      [] t.k = "complex128" -> {0}
      [] t.k = "ptr" /\ t.elem.k = "string" -> {NilPtr, PtrTo(<<"o">>)}
      [] t.k = "ptr" /\ t.elem.k = "struct" -> {NilPtr, PtrTo(<<<<"o">>>>)}
      [] t.k = "ptr" /\ t.elem.k = "slice" ->
            {NilPtr} \cup {PtrTo([i \in 1 .. n |-> OldElem(i - 1)]) : n \in 0 .. MaxSliceLen}

\* The entry points: Parse snapshots the process environment and makes rawEnvVars;
\* a caller of ParseWithOpts cannot set the unexported rawEnvVars; the file entry
\* points pass Options{Env: envMap}.
EntryOpts(e, env, prefix) ==
    [Env |-> env, Prefix |-> IF e = "ParseWithOpts" THEN prefix ELSE <<>>, rawNil |-> e # "Parse"]

Entries == {"Parse", "ParseWithOpts", "ParseFromFileIntoStruct"}

\* The process environment when the call starts: Parse's mapping is its snapshot
\* (toMap(os.Environ())); the other entry points' mappings are independent of it.
EntryEnviron(e, env, environ) == IF e = "Parse" THEN env ELSE environ

\* Two string fields A and B with every combination of required / expand and a default,
\* plain or holding a reference
ScalarFieldA ==
    {Fld("A", StringT, TRUE, <<<<"A">>>> \o fl, FALSE, <<>>, d) :
        fl \in {<<>>, <<RequiredEnv>>, <<ExpandEnv>>, <<RequiredEnv, ExpandEnv>>},
        d \in {<<>>, <<"d">>, RefB}}

ScalarFieldB ==
    {Fld("B", StringT, TRUE, <<<<"B">>>> \o fl, FALSE, <<>>, d) :
        fl \in {<<>>, <<RequiredEnv>>, <<ExpandEnv>>, <<RequiredEnv, ExpandEnv>>},
        d \in {<<>>, <<"h">> \o RefA, RefB}}

ScalarEnvs ==
    {e \in [{<<"A">>, <<"B">>, <<"P", "_", "A">>} -> {<<"absent">>, <<>>, <<"v">>, RefA, RefB}] :
        e[<<"P", "_", "A">>] \in {<<"absent">>, <<"w">>, <<"v">>}}

\* A mapping given as a function to values or "absent"
WithoutAbsent(e) == [k \in {k \in DOMAIN e : e[k] # <<"absent">>} |-> e[k]]

InitScalars ==
    /\ entry \in Entries
    /\ \E fa \in ScalarFieldA, fb \in ScalarFieldB :
          cfgType = StructT(TRUE, <<fa, fb>>)
    /\ target = <<<<>>, <<>>>>
    /\ \E e \in ScalarEnvs, p \in {<<>>, <<"P", "_">>} :
          /\ (entry # "ParseWithOpts" => p = <<>>)
          /\ callOpts = EntryOpts(entry, WithoutAbsent(e), p)
    /\ procEnv = EntryEnviron(entry, callOpts.Env, EmptyMap)

\* A string field A, then a field B of any kind with any tags
KindTypes ==
    {StringT, PtrT(StringT), InnerT, StructT(FALSE, InnerFields), PtrT(InnerT),
     SliceT(InnerT), PtrT(SliceT(InnerT)), ComplexT}

KindEnvTags ==
    {<<<<"B">>>>, <<<<"B">>, InitEnv>>, <<<<"B">>, RequiredEnv>>,
     <<<<"-">>>>, <<<<"-">>, RequiredEnv>>, <<<<>>, InitEnv>>}

KindFieldB ==
    {Fld("B", t, TRUE, env, pre # <<"none">>, IF pre = <<"none">> THEN <<>> ELSE pre, d) :
        t \in KindTypes, env \in KindEnvTags,
        pre \in {<<"none">>, <<"P", "_">>, <<"P">>}, d \in {<<>>, <<"d">>}}
    \cup
    {Fld("B", t, FALSE, <<<<>>>>, pre # <<"none">>, IF pre = <<"none">> THEN <<>> ELSE pre, d) :
        t \in KindTypes, pre \in {<<"none">>, <<"P", "_">>}, d \in {<<>>, <<"d">>}}

KindKeys ==
    {<<"B">>, <<"-">>, <<"F">>, <<"P", "_", "F">>, <<"P", "F">>,
     <<"0", "_", "F">>, <<"1", "_", "F">>,
     <<"P", "_", "0", "_", "F">>, <<"P", "_", "1", "_", "F">>, <<"P", "_", "2", "_", "F">>,
     <<"P", "_", "-", "1", "_", "F">>}

InitKinds ==
    /\ entry \in {"Parse", "ParseFromFileIntoStruct"}
    /\ \E fb \in KindFieldB :
          /\ cfgType = StructT(TRUE, <<Fld("A", StringT, TRUE, <<<<"A">>>>, FALSE, <<>>, <<>>), fb>>)
          /\ \E v \in ValuesBefore(fb.type) : target = <<<<>>, v>>
    /\ \E e \in EnvsOver(KindKeys, {<<"v">>}, MaxEnvKeys) : callOpts = EntryOpts(entry, e, <<>>)
    /\ procEnv = EntryEnviron(entry, callOpts.Env, EmptyMap)

\* A string field A and a field B tagged unset, with process variables of their names
UnsetFieldA ==
    {Fld("A", StringT, TRUE, <<<<"A">>>> \o fl, FALSE, <<>>, d) :
        fl \in {<<>>, <<UnsetEnv>>, <<UnsetEnv, RequiredEnv>>}, d \in {<<>>, <<"d">>}}

UnsetFieldB ==
    {Fld("B", t, TRUE, <<<<"B">>, UnsetEnv>>, FALSE, <<>>, <<>>) :
        t \in {StringT, PtrT(StringT), InnerT, IntT(8)}}

InitUnset ==
    /\ entry \in Entries
    /\ \E fa \in UnsetFieldA, fb \in UnsetFieldB :
          /\ cfgType = StructT(TRUE, <<fa, fb>>)
          /\ target = <<<<>>, Zero(fb.type)>>
    /\ \E e \in [{<<"A">>, <<"B">>} -> {<<"absent">>, <<>>, <<"v">>}] :
          callOpts = EntryOpts(entry, WithoutAbsent(e), <<>>)
    /\ \E pe \in [{<<"A">>, <<"B">>} -> {<<"absent">>, <<"p">>}] :
          procEnv = EntryEnviron(entry, callOpts.Env, WithoutAbsent(pe))

\* type Outer struct { In Inner `envPrefix:"Q_"` }
OuterT == StructT(TRUE, <<Fld("In", InnerT, FALSE, <<<<>>>>, TRUE, <<"Q", "_">>, <<>>)>>)

\* A field B with an envPrefix tag, over one or two levels of structs
PrefixFieldB ==
    {Fld("B", StringT, TRUE, <<<<"B">>>>, TRUE, <<"P", "_">>, <<>>),
     Fld("B", InnerT, TRUE, <<<<"B">>>>, FALSE, <<>>, <<>>)}
    \cup
    {Fld("B", t, FALSE, <<<<>>>>, TRUE, <<"P", "_">>, <<>>) :
        t \in {InnerT, OuterT, PtrT(OuterT), SliceT(InnerT)}}
    \cup
    {Fld("B", SliceT(InnerT), FALSE, <<<<>>>>, TRUE, <<"P">>, <<>>)}

\* the keys such fields can be looked up under, with and without Options.Prefix "C_"
PrefixKeys ==
    {c \o k : c \in {<<>>, <<"C", "_">>},
              k \in {<<"B">>, <<"P", "_", "B">>, <<"F">>, <<"P", "_", "F">>, <<"Q", "_", "F">>,
                     <<"P", "_", "Q", "_", "F">>, <<"P", "_", "0", "_", "F">>,
                     <<"P", "0", "_", "F">>, <<"P", "_", "1", "_", "F">>,
                     <<"P", "1", "_", "F">>}}

\* every key of the mapping holds its own name, which tells the lookups apart
InitPrefix ==
    /\ entry \in {"Parse", "ParseWithOpts"}
    /\ \E fb \in PrefixFieldB :
          /\ cfgType = StructT(TRUE, <<Fld("A", StringT, TRUE, <<<<"A">>>>, FALSE, <<>>, <<>>), fb>>)
          /\ \E v \in {Zero(fb.type)} \cup
                        (IF fb.type.k = "ptr" THEN {PtrTo(Zero(fb.type.elem))} ELSE {}) :
                target = <<<<>>, v>>
    /\ \E K \in {K \in SUBSET PrefixKeys : Cardinality(K) <= MaxEnvKeys},
          c \in {<<>>, <<"C", "_">>} :
          /\ (entry = "Parse" => c = <<>>)
          /\ callOpts = EntryOpts(entry, [k \in K |-> k], c)
    /\ procEnv = EntryEnviron(entry, callOpts.Env, EmptyMap)

\* strings.Join(parts, sep)
RECURSIVE Join(_, _)
Join(parts, sep) ==
    IF Len(parts) = 0 THEN <<>>
    ELSE IF Len(parts) = 1 THEN parts[1]
    ELSE parts[1] \o sep \o Join(Tail(parts), sep)

\* the field with the struct tags of tags added to it
Tagged(sf, tags) == tags @@ sf

\* the separator tags a slice or map field carries
SeparatorTags ==
    {EmptyMap, [envSeparator |-> <<>>], [envSeparator |-> <<";">>],
     [envKeyValSeparator |-> <<"=">>]}

\* the slice and map types explored: elements and keys with and without a parser
CollectionTypes ==
    {SliceT(StringT), SliceT(IntT(8)), SliceT(PtrT(IntT(8))), SliceT(SliceT(StringT)),
     PtrT(SliceT(StringT)), MapT(StringT, IntT(8)), MapT(StringT, StringT),
     MapT(IntT(8), StringT), MapT(StringT, SliceT(StringT))}

\* B <type> `env:"B"` with separator tags
CollectionFieldB ==
    {Tagged(Fld("B", t, TRUE, <<<<"B">>>>, FALSE, <<>>, <<>>), tags) :
        t \in CollectionTypes, tags \in SeparatorTags}

\* what a slice or map field holds before the call
CollectionBefore(t) ==
    {Zero(t)} \cup
    (IF t = SliceT(StringT) THEN {<<<<"o">>>>}
     ELSE IF t = MapT(StringT, StringT) THEN {[k \in {<<"a">>} |-> <<"o">>]}
     ELSE IF t = SliceT(IntT(8)) THEN {<<5>>}
     ELSE IF t = MapT(StringT, IntT(8)) THEN {[k \in {<<"a">>} |-> 5]}
     ELSE {})

\* the parts the value of B is joined from
CollectionParts ==
    {<<>>, <<"a">>, <<"1">>, <<"1", "2", "8">>, <<"a", ":", "1">>, <<"a", ":", "2">>,
     <<"1", ":", "a">>, <<"a", "=", "1">>, <<"a", ":", "1", ":", "2">>}

\* the non-empty values of B: up to MaxParts parts joined by "," or by ";"
CollectionValues ==
    {Join(ps, j) : ps \in UNION {[1 .. n -> CollectionParts] : n \in 1 .. MaxParts},
                   j \in {<<",">>, <<";">>}} \ {<<>>}

InitCollections ==
    /\ entry = "ParseWithOpts"
    /\ \E fb \in CollectionFieldB :
          /\ cfgType = StructT(TRUE, <<Fld("A", StringT, TRUE, <<<<"A">>>>, FALSE, <<>>, <<>>), fb>>)
          /\ \E v \in CollectionBefore(fb.type) : target = <<<<>>, v>>
    /\ \E val \in CollectionValues :
          callOpts = EntryOpts(entry, [k \in {<<"B">>} |-> val], <<>>)
    /\ procEnv = EntryEnviron(entry, callOpts.Env, EmptyMap)

\* type Strict struct { G string `env:"G"`; N int8 `env:"N"` }: a struct whose second
\* field can fail after its first one was bound
StrictFields ==
    <<Fld("G", StringT, TRUE, <<<<"G">>>>, FALSE, <<>>, <<>>),
      Fld("N", IntT(8), TRUE, <<<<"N">>>>, FALSE, <<>>, <<>>)>>
StrictT == StructT(TRUE, StrictFields)

StrictOld == <<<<"o">>, 5>>

NestedTypes == {StrictT, PtrT(StrictT), SliceT(StrictT), PtrT(SliceT(StrictT))}

\* what a field of such a type holds before the call
NestedBefore(t) ==
    CASE t = StrictT -> {Zero(StrictT), StrictOld}
      [] t = PtrT(StrictT) -> {NilPtr, PtrTo(Zero(StrictT)), PtrTo(StrictOld)}
      [] t = SliceT(StrictT) -> {<<>>, <<StrictOld>>, <<StrictOld, StrictOld>>}
      [] t = PtrT(SliceT(StrictT)) -> {NilPtr, PtrTo(<<>>), PtrTo(<<StrictOld>>)}

NestedKeys ==
    {<<"P", "_">> \o i \o k : i \in {<<>>, <<"0", "_">>, <<"1", "_">>}, k \in {<<"G">>, <<"N">>}}

\* G is absent or a string, N absent, a number or not a number
NestedEnvs ==
    {e \in [NestedKeys -> {<<"absent">>, <<"v">>, <<"1">>, <<"x">>}] :
        \A k \in NestedKeys :
            IF k[Len(k)] = "G" THEN e[k] \in {<<"absent">>, <<"v">>}
            ELSE e[k] \in {<<"absent">>, <<"1">>, <<"x">>}}

\* A string field A, a field B `envPrefix:"P_"` of a Strict type, a string field C
InitNested ==
    /\ entry \in {"Parse", "ParseWithOpts"}
    /\ \E t \in NestedTypes :
          /\ cfgType = StructT(TRUE, <<Fld("A", StringT, TRUE, <<<<"A">>>>, FALSE, <<>>, <<>>),
                                       Fld("B", t, FALSE, <<<<>>>>, TRUE, <<"P", "_">>, <<>>),
                                       Fld("C", StringT, TRUE, <<<<"C">>>>, FALSE, <<>>, <<>>)>>)
          /\ \E v \in NestedBefore(t) : target = <<<<>>, v, <<>>>>
    /\ \E e \in NestedEnvs :
          callOpts = EntryOpts(entry, WithoutAbsent(e) @@ [k \in {<<"C">>} |-> <<"v">>], <<>>)
    /\ procEnv = EntryEnviron(entry, callOpts.Env, EmptyMap)

\* type Plain struct { Field string }
PlainT == StructT(TRUE, <<Fld("Field", StringT, FALSE, <<<<>>>>, FALSE, <<>>, <<>>)>>)

\* a struct without an env or envPrefix tag anywhere:
\* struct { Field string; In Plain; P *Plain; S []Plain; N int8 }
TaglessT ==
    StructT(TRUE, <<Fld("Field", StringT, FALSE, <<<<>>>>, FALSE, <<>>, <<>>),
                    Fld("In", PlainT, FALSE, <<<<>>>>, FALSE, <<>>, <<>>),
                    Fld("P", PtrT(PlainT), FALSE, <<<<>>>>, FALSE, <<>>, <<>>),
                    Fld("S", SliceT(PlainT), FALSE, <<<<>>>>, FALSE, <<>>, <<>>),
                    Fld("N", IntT(8), FALSE, <<<<>>>>, FALSE, <<>>, <<>>)>>)

\* type Tagged struct { A string `env:"A"`; B string `env:"B"` }
TaggedT ==
    StructT(TRUE, <<Fld("A", StringT, TRUE, <<<<"A">>>>, FALSE, <<>>, <<>>),
                    Fld("B", StringT, TRUE, <<<<"B">>>>, FALSE, <<>>, <<>>)>>)

\* the values given as v: nil, values that are not pointers, nil pointers, pointers to
\* something that is not a struct, and pointers to structs
TargetArgs ==
    {NilArg, ValueArg(TaglessT), ValueArg(TaggedT), ValueArg(IntT(8)),
     PtrArg(TRUE, TaglessT), PtrArg(TRUE, TaggedT), PtrArg(TRUE, IntT(8)),
     PtrArg(FALSE, IntT(8)), PtrArg(FALSE, PtrT(TaggedT)), PtrArg(FALSE, SliceT(TaggedT)),
     PtrArg(FALSE, TaglessT), PtrArg(FALSE, TaggedT)}

\* the struct the argument is or points to, if any
StructOf(a) ==
    IF a.k # "nil" /\ a.type.k = "struct" /\ (a.k = "ptr" => ~a.isNil) THEN a.type
    ELSE StructT(TRUE, <<>>)

StructsBefore(t) ==
    IF t = TaglessT
    THEN {Zero(t), <<<<"o">>, <<<<"o">>>>, PtrTo(<<<<"o">>>>), <<<<<<"o">>>>>>, 5>>}
    ELSE IF t = TaggedT THEN {Zero(t), <<<<"o">>, <<>>>>}
    ELSE {<<>>}

TargetKeys ==
    {<<"A">>, <<"B">>, <<"F", "i", "e", "l", "d">>, <<"I", "n">>, <<"P">>, <<"S">>, <<"N">>,
     <<"0", "_", "F", "i", "e", "l", "d">>}

\* any value as v, before ParseWithOpts has looked at it
InitTargets ==
    /\ entry \in {"Parse", "ParseWithOpts"}
    /\ arg \in TargetArgs
    /\ cfgType = StructOf(arg)
    /\ target \in StructsBefore(cfgType)
    /\ \E e \in EnvsOver(TargetKeys, {<<"v">>}, MaxEnvKeys) : callOpts = EntryOpts(entry, e, <<>>)
    /\ procEnv = EntryEnviron(entry, callOpts.Env, EmptyMap)

Init ==
    /\ FileIdle
    /\ OTPIdle
    /\ ParserIdle
    /\ PairIdle
    /\ \/ /\ InitScalars \/ InitKinds \/ InitUnset \/ InitPrefix \/ InitCollections
                \/ InitNested
          /\ arg = PtrArg(FALSE, cfgType)
          /\ bpc = "parse"
          /\ bidx = 1
       \/ /\ InitTargets
          /\ bpc = "check"
          /\ bidx = 0
    /\ before = target
    /\ procBefore = procEnv
    /\ rawEnvVars = EmptyMap
    /\ berr = NoErr
    /\ again = NotAgain

\* parseStruct's loop on the target (env.go:168-178), one action per way a field ends

\* what the call shares with the calls it makes
Shared == [vars |-> rawEnvVars, environ |-> procEnv]

\* the target's next field ends with result r
FieldEnds(r, how) ==
    CASE how = "ok" -> r.err = NoErr /\ target' = [target EXCEPT ![bidx] = r.val]
                        /\ rawEnvVars' = r.raw.vars /\ procEnv' = r.raw.environ
      [] how = "fail" -> r.err # NoErr /\ r.err # Overflow
                        /\ target' = [target EXCEPT ![bidx] = r.val]
                        /\ rawEnvVars' = r.raw.vars /\ procEnv' = r.raw.environ
                        /\ berr' = r.err
      [] how = "overflow" -> r.err = Overflow

BindField ==
    /\ bpc = "parse" /\ bidx <= Len(cfgType.fields)
    /\ FieldEnds(parseField(cfgType.fields[bidx], target[bidx], callOpts, Shared), "ok")
    /\ bidx' = bidx + 1
    /\ UNCHANGED <<entry, cfgType, before, callOpts, procBefore, berr, bpc, arg, again>>
    /\ UNCHANGED fvars
    /\ UNCHANGED mvars
    /\ UNCHANGED ovars

\* ParseWithOpts and parseInterface find v to be a pointer to a struct
TargetAccepted ==
    /\ bpc = "check"
    /\ isPointerArg(arg) /\ isStructPointer(arg)
    /\ bpc' = "parse"
    /\ bidx' = 1
    /\ UNCHANGED <<entry, cfgType, target, before, callOpts, rawEnvVars, procEnv, procBefore,
                   berr, arg, again>>
    /\ UNCHANGED fvars
    /\ UNCHANGED mvars
    /\ UNCHANGED ovars

\* ParseWithOpts or parseInterface returns "expected a pointer to a valid struct"
TargetRejected ==
    /\ bpc = "check"
    /\ ~(isPointerArg(arg) /\ isStructPointer(arg))
    /\ berr' = Err("expected a pointer to a valid struct", <<>>)
    /\ bpc' = "done"
    /\ UNCHANGED <<entry, cfgType, target, before, callOpts, rawEnvVars, procEnv, procBefore,
                   bidx, arg, again>>
    /\ UNCHANGED fvars
    /\ UNCHANGED mvars
    /\ UNCHANGED ovars

\* ParseWithOpts called once more, on the struct the call left and with the same Options
ParseAgain ==
    /\ bpc = "done" /\ berr = NoErr /\ entry = "ParseWithOpts" /\ ~again.called
    /\ LET r == parseStruct(cfgType, target, callOpts, Shared)
       IN  /\ again' = [called |-> TRUE, val |-> r.val, err |-> r.err]
           /\ procEnv' = IF r.err = Overflow THEN procEnv ELSE r.raw.environ
    /\ UNCHANGED <<entry, cfgType, target, before, callOpts, rawEnvVars, procBefore,
                   berr, bpc, bidx, arg>>
    /\ UNCHANGED fvars
    /\ UNCHANGED mvars
    /\ UNCHANGED ovars

BindFailContinues ==
    /\ bpc = "parse" /\ bidx <= Len(cfgType.fields)
    /\ FieldEnds(parseField(cfgType.fields[bidx], target[bidx], callOpts, Shared), "fail")
    /\ bidx' = bidx + 1
    /\ UNCHANGED <<entry, cfgType, before, callOpts, procBefore, bpc, arg, again>>
    /\ UNCHANGED fvars
    /\ UNCHANGED mvars
    /\ UNCHANGED ovars

BindFail ==
    /\ bpc = "parse" /\ bidx <= Len(cfgType.fields)
    /\ FieldEnds(parseField(cfgType.fields[bidx], target[bidx], callOpts, Shared), "fail")
    /\ bpc' = "done"
    /\ UNCHANGED <<entry, cfgType, before, callOpts, procBefore, bidx, arg, again>>
    /\ UNCHANGED fvars
    /\ UNCHANGED mvars
    /\ UNCHANGED ovars

\* the expansion of the field's value recurses without end: the process dies
BindOverflow ==
    /\ bpc = "parse" /\ bidx <= Len(cfgType.fields)
    /\ FieldEnds(parseField(cfgType.fields[bidx], target[bidx], callOpts, Shared), "overflow")
    /\ bpc' = "crashed"
    /\ UNCHANGED <<entry, cfgType, target, before, callOpts, rawEnvVars, procEnv, procBefore,
                   berr, bidx, arg, again>>
    /\ UNCHANGED fvars
    /\ UNCHANGED mvars
    /\ UNCHANGED ovars

BindReturn ==
    /\ bpc = "parse" /\ bidx > Len(cfgType.fields)
    /\ bpc' = "done"
    /\ UNCHANGED <<entry, cfgType, target, before, callOpts, rawEnvVars, procEnv, procBefore,
                   berr, bidx, arg, again>>
    /\ UNCHANGED fvars
    /\ UNCHANGED mvars
    /\ UNCHANGED ovars

Next ==
    TargetAccepted \/ TargetRejected \/ BindField \/ BindFail \/ BindOverflow \/ BindReturn
        \/ ParseAgain

Spec == Init /\ [][Next]_vars

----------------------------------------------------------------------------
(* ParseFromFiles and ParseFromFilesIntoStruct: several files in one call *)

\* parseEnvFileBytes' loop on the remainder s with the map m built so far
RECURSIVE parseLoop(_, _)
parseLoop(s, m) ==
    IF getStart(s) = <<>> THEN [envMap |-> m, err |-> ErrNil]
    ELSE IF getKeyValue(getStart(s)).err # ErrNil
    THEN [envMap |-> EmptyMap, err |-> getKeyValue(getStart(s)).err]
    ELSE parseLoop(getKeyValue(getStart(s)).rest,
                   MapPut(m, getKeyValue(getStart(s)).key, getKeyValue(getStart(s)).value))

\* parseEnvFileBytes as one call: [envMap, err]
parseEnvFileBytes(s) ==
    IF Len(s) = 0 THEN [envMap |-> EmptyMap, err |-> "empty file"] ELSE parseLoop(s, EmptyMap)

\* bytes.Replace(s, "\r\n", "\n", -1)
RECURSIVE ReplaceCRLF(_)
ReplaceCRLF(s) ==
    IF Len(s) = 0 THEN <<>>
    ELSE IF Len(s) >= 2 /\ s[1] = CR /\ s[2] = NL THEN <<NL>> \o ReplaceCRLF(SubSeq(s, 3, Len(s)))
    ELSE <<s[1]>> \o ReplaceCRLF(Tail(s))

\* readWithIO on a file that holds content
readWithIO(content) == parseEnvFileBytes(ReplaceCRLF(content))

\* parseFile on a file that opens and holds content
parseFile(content) == readWithIO(content)

\* ParseFromFilesIntoStruct's inner loop: the file's pairs written over envMap
RECURSIVE mergeInto(_, _)
mergeInto(envMapSoFar, tEnvMap) ==
    IF DOMAIN tEnvMap = {} THEN envMapSoFar
    ELSE LET key == CHOOSE k \in DOMAIN tEnvMap : TRUE
         IN  mergeInto(MapPut(envMapSoFar, key, tEnvMap[key]), MapDel(tEnvMap, key))

\* the callback: an error for the keys of failOn
callbackFunc(key, val) == IF key \in failOn THEN "callback error" ELSE ErrNil

\* ParseFromFile's loop going on after a callback's error
afterCallbackIgnoringError(err) == "deliver"

\* ParseFromFile's loop after a callback returned err: where control goes
afterCallback(err) == IF err # ErrNil THEN "done" ELSE "deliver"

\* the lines a file is made of
FileLines ==
    {<<"A", "=">>, <<"A", "=", "x">>, <<"A", "=", "y">>, <<"B", "=", "x">>}

\* the files of n lines
FilesOfLines(n) == {Join(ls, <<NL>>) : ls \in [1 .. n -> FileLines]}

RECURSIVE SumOf(_)
SumOf(c) == IF Len(c) = 0 THEN 0 ELSE c[1] + SumOf(Tail(c))

\* the lists of files whose line counts are c
RECURSIVE FileListsOf(_)
FileListsOf(c) ==
    IF Len(c) = 0 THEN {<<>>}
    ELSE {<<f>> \o rest : f \in FilesOfLines(c[1]), rest \in FileListsOf(Tail(c))}

\* one to MaxFiles files with at most MaxLines lines in all; a file of no line is empty
FileLists ==
    UNION {FileListsOf(c) :
           c \in {c \in UNION {[1 .. n -> 0 .. MaxLines] : n \in 1 .. MaxFiles} :
                      SumOf(c) <= MaxLines}}

\* type Config struct { A string `env:"A"`; B string `env:"B"` }
FilesT ==
    StructT(TRUE, <<Fld("A", StringT, TRUE, <<<<"A">>>>, FALSE, <<>>, <<>>),
                    Fld("B", StringT, TRUE, <<<<"B">>>>, FALSE, <<>>, <<>>)>>)

InitFiles ==
    /\ FileUnused
    /\ OTPIdle
    /\ ParserIdle
    /\ PairIdle
    /\ entry \in {"ParseFromFilesIntoStruct", "ParseFromFiles"}
    /\ files \in FileLists
    /\ failOn \in SUBSET {<<"A">>, <<"B">>}
    /\ entry = "ParseFromFilesIntoStruct" => failOn = {}
    /\ fileIdx = 1
    /\ merged = EmptyMap
    /\ pending = EmptyMap
    /\ calls = <<>>
    /\ mpc = "open"
    /\ merr = ErrNil
    /\ cfgType = FilesT
    /\ arg = PtrArg(FALSE, FilesT)
    /\ again = NotAgain
    /\ target = Zero(FilesT)
    /\ before = target
    /\ callOpts = [Env |-> EmptyMap, Prefix |-> <<>>, rawNil |-> TRUE]
    /\ rawEnvVars = EmptyMap
    /\ procEnv = EmptyMap
    /\ procBefore = procEnv
    /\ berr = NoErr
    /\ bpc = "idle"
    /\ bidx = 0

\* file.go:40-42, 135-137: the file does not parse
OpenFails ==
    /\ mpc = "open" /\ fileIdx <= Len(files)
    /\ parseFile(files[fileIdx]).err # ErrNil
    /\ merr' = parseFile(files[fileIdx]).err
    /\ mpc' = "done"
    /\ UNCHANGED <<files, fileIdx, merged, pending, calls, failOn>>
    /\ UNCHANGED fvars
    /\ UNCHANGED bvars
    /\ UNCHANGED ovars

\* file.go:38-47: ParseFromFilesIntoStruct takes the next file into envMap
OpenMerges ==
    /\ mpc = "open" /\ fileIdx <= Len(files)
    /\ entry = "ParseFromFilesIntoStruct"
    /\ parseFile(files[fileIdx]).err = ErrNil
    /\ merged' = mergeInto(merged, parseFile(files[fileIdx]).envMap)
    /\ fileIdx' = fileIdx + 1
    /\ UNCHANGED <<files, pending, calls, failOn, mpc, merr>>
    /\ UNCHANGED fvars
    /\ UNCHANGED bvars
    /\ UNCHANGED ovars

\* file.go:50-54: every file is merged, ParseWithOpts binds envMap
BindMerged ==
    /\ mpc = "open" /\ fileIdx > Len(files)
    /\ entry = "ParseFromFilesIntoStruct"
    /\ callOpts' = EntryOpts(entry, merged, <<>>)
    /\ LET r == parseStruct(cfgType, target, EntryOpts(entry, merged, <<>>), Shared)
       IN  /\ target' = r.val
           /\ rawEnvVars' = r.raw.vars
           /\ procEnv' = r.raw.environ
           /\ berr' = r.err
    /\ bidx' = Len(cfgType.fields) + 1
    /\ bpc' = "done"
    /\ mpc' = "done"
    /\ UNCHANGED <<entry, cfgType, before, procBefore, arg, again>>
    /\ UNCHANGED <<files, fileIdx, merged, pending, calls, failOn, merr>>
    /\ UNCHANGED fvars
    /\ UNCHANGED ovars

\* file.go:135-139: ParseFromFile has parsed the next file
OpenDelivers ==
    /\ mpc = "open" /\ fileIdx <= Len(files)
    /\ entry = "ParseFromFiles"
    /\ parseFile(files[fileIdx]).err = ErrNil
    /\ pending' = parseFile(files[fileIdx]).envMap
    /\ mpc' = "deliver"
    /\ UNCHANGED <<files, fileIdx, merged, calls, failOn, merr>>
    /\ UNCHANGED fvars
    /\ UNCHANGED bvars
    /\ UNCHANGED ovars

\* file.go:139-145: the callback is given a pair of the file, in the order the
\* iteration over the map happens to take
Callback ==
    /\ mpc = "deliver"
    /\ \E key \in DOMAIN pending :
          /\ calls' = Append(calls, <<fileIdx, key, pending[key]>>)
          /\ merr' = callbackFunc(key, pending[key])
          /\ mpc' = afterCallback(callbackFunc(key, pending[key]))
          /\ pending' = MapDel(pending, key)
    /\ UNCHANGED <<files, fileIdx, merged, failOn>>
    /\ UNCHANGED fvars
    /\ UNCHANGED bvars
    /\ UNCHANGED ovars

\* file.go:147, 108-110: ParseFromFile returns nil and ParseFromFiles goes on
FileDelivered ==
    /\ mpc = "deliver" /\ DOMAIN pending = {}
    /\ fileIdx' = fileIdx + 1
    /\ mpc' = "open"
    /\ UNCHANGED <<files, merged, pending, calls, failOn, merr>>
    /\ UNCHANGED fvars
    /\ UNCHANGED bvars
    /\ UNCHANGED ovars

\* file.go:113: ParseFromFiles returns nil
FilesReturn ==
    /\ mpc = "open" /\ fileIdx > Len(files)
    /\ entry = "ParseFromFiles"
    /\ mpc' = "done"
    /\ UNCHANGED <<files, fileIdx, merged, pending, calls, failOn, merr>>
    /\ UNCHANGED fvars
    /\ UNCHANGED bvars
    /\ UNCHANGED ovars

NextFiles ==
    OpenFails \/ OpenMerges \/ BindMerged \/ OpenDelivers \/ Callback \/ FileDelivered
        \/ FilesReturn

SpecFiles == InitFiles /\ [][NextFiles]_vars

----------------------------------------------------------------------------
(* package utils, random.go: GenerateOTP                                    *)
(*                                                                          *)
(* An int64 is [neg, mag]: its sign and the decimal digits of its           *)
(* magnitude, most significant first and without leading zeros (zero is     *)
(* <<0>>).  int is 64 bits wide, as on every 64-bit platform.               *)

MaxOTPLen == 20

Repeat(k, d) == [i \in 1 .. k |-> d]

\* 10^k
Pow10Mag(k) == <<1>> \o Repeat(k, 0)

MaxInt64Mag == <<9, 2, 2, 3, 3, 7, 2, 0, 3, 6, 8, 5, 4, 7, 7, 5, 8, 0, 7>>
MinInt64Mag == <<9, 2, 2, 3, 3, 7, 2, 0, 3, 6, 8, 5, 4, 7, 7, 5, 8, 0, 8>>
Two64Mag == <<1, 8, 4, 4, 6, 7, 4, 4, 0, 7, 3, 7, 0, 9, 5, 5, 1, 6, 1, 6>>

I64(neg, mag) == [neg |-> neg, mag |-> mag]
MaxInt64 == I64(FALSE, MaxInt64Mag)
MinInt64 == I64(TRUE, MinInt64Mag)

StripZeros(d) ==
    LET nz == {i \in 1 .. Len(d) : d[i] # 0}
    IN  IF nz = {} THEN <<0>>
        ELSE SubSeq(d, CHOOSE i \in nz : \A j \in nz : i <= j, Len(d))

PadTo(d, k) == Repeat(k - Len(d), 0) \o d

LessMag(a, b) ==
    \/ Len(a) < Len(b)
    \/ /\ Len(a) = Len(b)
       /\ \E i \in 1 .. Len(a) : a[i] < b[i] /\ \A j \in 1 .. i - 1 : a[j] = b[j]

RECURSIVE AddDigits(_, _, _)
AddDigits(a, b, carry) ==
    IF a = <<>> THEN (IF carry = 0 THEN <<>> ELSE <<carry>>)
    ELSE LET sum == a[Len(a)] + b[Len(b)] + carry
         IN  AddDigits(SubSeq(a, 1, Len(a) - 1), SubSeq(b, 1, Len(b) - 1), sum \div 10)
                 \o <<sum % 10>>

AddMag(a, b) ==
    LET k == IF Len(a) < Len(b) THEN Len(b) ELSE Len(a)
    IN  StripZeros(AddDigits(PadTo(a, k), PadTo(b, k), 0))

RECURSIVE SubDigits(_, _, _)
SubDigits(a, b, borrow) ==
    IF a = <<>> THEN <<>>
    ELSE LET d == a[Len(a)] - b[Len(b)] - borrow
         IN  SubDigits(SubSeq(a, 1, Len(a) - 1), SubSeq(b, 1, Len(b) - 1),
                       IF d < 0 THEN 1 ELSE 0)
                 \o <<IF d < 0 THEN d + 10 ELSE d>>

\* a - b for a >= b
SubMag(a, b) == StripZeros(SubDigits(a, PadTo(b, Len(a)), 0))

\* a < b on int64
Less64(a, b) ==
    IF a.neg # b.neg THEN a.neg
    ELSE IF a.neg THEN LessMag(b.mag, a.mag) ELSE LessMag(a.mag, b.mag)

\* a + b on int64 for a, b >= 0: a sum above MaxInt64 wraps around
Add64(a, b) ==
    LET sum == AddMag(a.mag, b.mag)
    IN  IF LessMag(MaxInt64Mag, sum) THEN I64(TRUE, SubMag(Two64Mag, sum))
        ELSE I64(FALSE, sum)

\* The conversion int64(math.Pow10(k)), k >= 0.  Up to 10^18 the power is exact and
\* fits.  From 10^19 on the float64 is beyond int64 and Go leaves the result to the
\* implementation: amd64 yields the minimum int64, arm64 saturates at the maximum.
Builds == {"amd64", "arm64"}
Int64OfPow10(k, build) ==
    IF k <= 18 THEN I64(FALSE, Pow10Mag(k))
    ELSE IF build = "amd64" THEN MinInt64 ELSE MaxInt64

IsPositive(a) == ~a.neg /\ a.mag # <<0>>

OTPNoResult == [otp |-> I64(FALSE, <<0>>), err |-> ErrNil]

\* generateOTP, for a call in which rand.Int does not panic
generateOTP(length, build, readerFails, n) ==
    IF length <= 0 THEN [otp |-> I64(FALSE, <<0>>), err |-> "length should be greater than 0"]
    ELSE LET minVal == Int64OfPow10(length - 1, build)
             otp == I64(FALSE, n)
         IN  IF readerFails
             THEN [otp |-> I64(FALSE, <<0>>), err |-> "could not generate OTP"]
             ELSE [otp |-> IF Less64(otp, minVal) THEN Add64(otp, minVal) ELSE otp,
                   err |-> ErrNil]

\* rand.Int(reader, max) panics when max <= 0
RandIntPanics(length, build) == length > 0 /\ ~IsPositive(Int64OfPow10(length, build))

\* Numbers rand.Int may draw from [0, maxVal): both ends, and both sides of minVal
OTPDraws(length, build) ==
    LET maxVal == Int64OfPow10(length, build)
        minVal == Int64OfPow10(length - 1, build)
    IN  IF length <= 0 \/ ~IsPositive(maxVal) THEN {<<0>>}
        ELSE {n \in {<<0>>, SubMag(maxVal.mag, <<1>>)}
                      \cup (IF IsPositive(minVal)
                            THEN {minVal.mag, SubMag(minVal.mag, <<1>>)} ELSE {}) :
                  LessMag(n, maxVal.mag)}

OTPLengths == -1 .. MaxOTPLen

InitOTP ==
    /\ FileIdle
    /\ BinderIdle
    /\ \E length \in OTPLengths, build \in Builds, readerFails \in BOOLEAN :
           \E n \in OTPDraws(length, build) :
               otpArgs = [length |-> length, build |-> build,
                          readerFails |-> readerFails, n |-> n]
    /\ otpRes = OTPNoResult
    /\ opc = "call"
    /\ ParserIdle
    /\ PairIdle

OTPReturn ==
    /\ opc = "call"
    /\ ~RandIntPanics(otpArgs.length, otpArgs.build)
    /\ otpRes' = generateOTP(otpArgs.length, otpArgs.build, otpArgs.readerFails, otpArgs.n)
    /\ opc' = "done"
    /\ UNCHANGED <<otpArgs, parserArgs, parserRes, ppc, running>>
    /\ UNCHANGED fvars
    /\ UNCHANGED bvars
    /\ UNCHANGED mvars

OTPPanic ==
    /\ opc = "call"
    /\ RandIntPanics(otpArgs.length, otpArgs.build)
    /\ opc' = "crashed"
    /\ UNCHANGED <<otpArgs, otpRes, parserArgs, parserRes, ppc, running>>
    /\ UNCHANGED fvars
    /\ UNCHANGED bvars
    /\ UNCHANGED mvars

NextOTP == OTPReturn \/ OTPPanic

SpecOTP == InitOTP /\ [][NextOTP]_vars

----------------------------------------------------------------------------
(* parsers.go: the integer entries of the parsers table                     *)
(*                                                                          *)
(* The integers are [neg, mag] as above, so that every width up to 64 bits  *)
(* keeps its range.                                                         *)

\* 2^n for the widths of Go's integer types and their sign bits
Pow2Mag(n) ==
    CASE n = 7 -> <<1, 2, 8>>
      [] n = 8 -> <<2, 5, 6>>
      [] n = 15 -> <<3, 2, 7, 6, 8>>
      [] n = 16 -> <<6, 5, 5, 3, 6>>
      [] n = 31 -> <<2, 1, 4, 7, 4, 8, 3, 6, 4, 8>>
      [] n = 32 -> <<4, 2, 9, 4, 9, 6, 7, 2, 9, 6>>
      [] n = 63 -> MinInt64Mag
      [] n = 64 -> Two64Mag

IsDigits(s) == Len(s) > 0 /\ \A i \in 1 .. Len(s) : s[i] \in DigitSet

\* the magnitude a string of digits denotes
MagOf(s) == StripZeros([i \in 1 .. Len(s) |-> DigitVal(s[i])])

\* strconv.ParseInt(s, 10, bitSize): [ok, val]; on a range error val is the nearest
\* value of the width
strconvParseInt(s, bitSize) ==
    LET signed == Len(s) > 0 /\ s[1] \in {"+", "-"}
        neg == Len(s) > 0 /\ s[1] = "-"
        body == IF signed THEN Tail(s) ELSE s
        cutoff == Pow2Mag(bitSize - 1)
    IN  IF ~IsDigits(body) THEN [ok |-> FALSE, val |-> I64(FALSE, <<0>>)]
        ELSE IF ~neg /\ ~LessMag(MagOf(body), cutoff)
        THEN [ok |-> FALSE, val |-> I64(FALSE, SubMag(cutoff, <<1>>))]
        ELSE IF neg /\ LessMag(cutoff, MagOf(body))
        THEN [ok |-> FALSE, val |-> I64(TRUE, cutoff)]
        ELSE [ok |-> TRUE, val |-> I64(neg /\ MagOf(body) # <<0>>, MagOf(body))]

\* strconv.ParseUint(s, 10, bitSize): no sign is accepted
strconvParseUint(s, bitSize) ==
    IF ~IsDigits(s) THEN [ok |-> FALSE, val |-> I64(FALSE, <<0>>)]
    ELSE IF ~LessMag(MagOf(s), Pow2Mag(bitSize))
    THEN [ok |-> FALSE, val |-> I64(FALSE, SubMag(Pow2Mag(bitSize), <<1>>))]
    ELSE [ok |-> TRUE, val |-> I64(FALSE, MagOf(s))]

IntKinds == {"int", "int8", "int16", "int32", "int64"}
UintKinds == {"uint", "uint8", "uint16", "uint32", "uint64"}

\* the bit size each entry of parsers passes to strconv
ParserBitSize(kind) ==
    CASE kind \in {"int8", "uint8"} -> 8
      [] kind \in {"int16", "uint16"} -> 16
      [] kind \in {"int", "int32", "uint", "uint32"} -> 32
      [] kind \in {"int64", "uint64"} -> 64

\* parsers[kind](v); the conversion to the kind's type keeps the value, the type being
\* at least as wide as the bit size
parsers(kind, v) ==
    IF kind \in IntKinds THEN strconvParseInt(v, ParserBitSize(kind))
    ELSE strconvParseUint(v, ParserBitSize(kind))

\* the string of a magnitude
MagStr(m) == [i \in 1 .. Len(m) |-> Digits[m[i] + 1]]

\* the strings given to the parsers: the numbers around every limit of a width, with
\* either sign, and strings that are not numbers
ParserInputs ==
    LET limits == {Pow2Mag(n) : n \in {7, 8, 15, 16, 31, 32, 63, 64}}
        mags == {<<0>>, <<1>>, <<4, 2>>} \cup limits
                    \cup {SubMag(m, <<1>>) : m \in limits} \cup {AddMag(m, <<1>>) : m \in limits}
    IN  {MagStr(m) : m \in mags} \cup {<<"-">> \o MagStr(m) : m \in mags}
            \cup {<<>>, <<"-">>, <<"+", "1">>, <<"0", "7">>, <<"a">>, <<"1", "a">>, <<"1", "_", "0">>,
                  <<" ", "1">>}

InitParser ==
    /\ FileIdle
    /\ BinderIdle
    /\ OTPIdle
    /\ \E kind \in IntKinds \cup UintKinds, v \in ParserInputs :
           parserArgs = [kind |-> kind, v |-> v]
    /\ parserRes = [ok |-> FALSE, val |-> I64(FALSE, <<0>>)]
    /\ ppc = "call"
    /\ PairIdle

ParserCall ==
    /\ ppc = "call"
    /\ parserRes' = parsers(parserArgs.kind, parserArgs.v)
    /\ ppc' = "done"
    /\ UNCHANGED <<otpArgs, otpRes, opc, parserArgs, running>>
    /\ UNCHANGED fvars
    /\ UNCHANGED bvars
    /\ UNCHANGED mvars

NextParser == ParserCall

SpecParser == InitParser /\ [][NextParser]_vars

----------------------------------------------------------------------------
(* Two top-level calls on distinct targets, running at the same time         *)
(*                                                                          *)
(* A call touches what other goroutines can see in two places: Parse copies  *)
(* the process environment (defaultOptions), and a field tagged unset        *)
(* removes a variable from it (handleUnset).  Both are atomic, so the calls  *)
(* interleave field by field.                                                *)

\* type Config struct { A string `env:"A[,unset]"`; B string `env:"B[,unset]"` }
PairTypes ==
    {StructT(TRUE, <<Fld("A", StringT, TRUE, <<<<"A">>>> \o fa, FALSE, <<>>, <<>>),
                     Fld("B", StringT, TRUE, <<<<"B">>>> \o fb, FALSE, <<>>, <<>>)>>) :
        fa \in {<<>>, <<UnsetEnv>>}, fb \in {<<>>, <<UnsetEnv>>}}

PairMaps(val) == {WithoutAbsent(e) : e \in [{<<"A">>, <<"B">>} -> {<<"absent">>, val}]}

\* a call before it started: Parse, or ParseWithOpts with a mapping of its own
PairCalls ==
    {[entry |-> e, type |-> t, target |-> Zero(t), before |-> Zero(t),
      opts |-> EntryOpts(e, m, <<>>), raw |-> EmptyMap, idx |-> 1, err |-> NoErr,
      pc |-> "start"] :
        e \in {"Parse", "ParseWithOpts"}, t \in PairTypes, m \in PairMaps(<<"v">>)}

InitPair ==
    /\ FileUnused
    /\ FilesIdle
    /\ OTPIdle
    /\ ParserIdle
    /\ running \in {p \in [1 .. 2 -> PairCalls] :
                    \A c \in 1 .. 2 : p[c].entry = "Parse" => p[c].opts.Env = EmptyMap}
    /\ procEnv \in PairMaps(<<"p">>)
    /\ procBefore = procEnv
    /\ entry = "none"
    /\ cfgType = StructT(TRUE, <<>>)
    /\ target = <<>>
    /\ before = <<>>
    /\ callOpts = [Env |-> EmptyMap, Prefix |-> <<>>, rawNil |-> TRUE]
    /\ rawEnvVars = EmptyMap
    /\ berr = NoErr
    /\ bpc = "idle"
    /\ bidx = 0
    /\ arg = NilArg
    /\ again = NotAgain

PairUnchanged ==
    /\ UNCHANGED <<entry, cfgType, target, before, callOpts, rawEnvVars, procBefore,
                   berr, bpc, bidx, arg, again>>
    /\ UNCHANGED <<otpArgs, otpRes, opc, parserArgs, parserRes, ppc>>
    /\ UNCHANGED fvars
    /\ UNCHANGED mvars

\* the Options a call works with: Parse's defaultOptions copies the environment
startOptions(c) ==
    IF running[c].entry = "Parse" THEN EntryOpts("Parse", procEnv, <<>>) ELSE running[c].opts

\* Parse / ParseWithOpts up to the first field
PairStart(c) ==
    /\ running[c].pc = "start"
    /\ running' = [running EXCEPT ![c].opts = startOptions(c), ![c].pc = "parse"]
    /\ UNCHANGED procEnv
    /\ PairUnchanged

\* the mapping a field is looked up in
fieldOptionsLive(c) == [running[c].opts EXCEPT !.Env = IF running[c].entry = "Parse" THEN procEnv ELSE @]

fieldOptions(c) == running[c].opts

\* parseStruct's loop: the next field of call c
PairField(c) ==
    /\ running[c].pc = "parse" /\ running[c].idx <= Len(running[c].type.fields)
    /\ LET r == parseField(running[c].type.fields[running[c].idx], running[c].target[running[c].idx],
                           fieldOptions(c), [vars |-> running[c].raw, environ |-> procEnv])
       IN  /\ running' = [running EXCEPT ![c].target[running[c].idx] = r.val,
                                   ![c].raw = r.raw.vars,
                                   ![c].err = r.err,
                                   ![c].idx = IF r.err = NoErr THEN @ + 1 ELSE @,
                                   ![c].pc = IF r.err = NoErr THEN "parse" ELSE "done"]
           /\ procEnv' = r.raw.environ
    /\ PairUnchanged

\* parseStruct returns nil
PairReturn(c) ==
    /\ running[c].pc = "parse" /\ running[c].idx > Len(running[c].type.fields)
    /\ running' = [running EXCEPT ![c].pc = "done"]
    /\ UNCHANGED procEnv
    /\ PairUnchanged

NextPair == \E c \in 1 .. 2 : PairStart(c) \/ PairField(c) \/ PairReturn(c)

SpecPair == InitPair /\ [][NextPair]_vars

----------------------------------------------------------------------------
(* Claims about the .env parser *)

RECURSIVE SplitLines(_)
SplitLines(s) ==
    LET nl == indexOfChar(s, NL)
    IN  IF nl = -1 THEN <<s>> ELSE <<Slice(s, 0, nl)>> \o SplitLines(From(s, nl + 1))

SepIndex(l) == indexOfChars(l, {"=", ":"})
LineKey(l) == Slice(l, 0, SepIndex(l))
LineValue(l) == From(l, SepIndex(l) + 1)

\* KEY=VALUE or KEY:VALUE with a key of uppercase letters and a plain, possibly empty, value
WellFormedLine(l) ==
    /\ SepIndex(l) > 0
    /\ \A i \in 1 .. Len(LineKey(l)) : IsUpperLetter(LineKey(l)[i])
    /\ \A i \in 1 .. Len(LineValue(l)) : LineValue(l)[i] \in {"A", "B", "x"}

WellFormedInput(s) == \A i \in 1 .. Len(SplitLines(s)) : WellFormedLine(SplitLines(s)[i])

\* C4: for an input of well-formed lines KEY=VALUE separated by newlines, the
\* returned map has an entry for every line's key carrying that line's value
\* (the last line of a key deciding), also when some line has an empty value.
C4_EveryLineParsed ==
    (fpc = "done" /\ Len(input) > 0 /\ WellFormedInput(input)) =>
        LET ls == SplitLines(input)
        IN  /\ ferr = ErrNil
            /\ \A i \in 1 .. Len(ls) :
                  /\ LineKey(ls[i]) \in DOMAIN envMap
                  /\ (\A j \in i + 1 .. Len(ls) : LineKey(ls[j]) # LineKey(ls[i]))
                        => envMap[LineKey(ls[i])] = LineValue(ls[i])

IsBlankLine(l) == indexOfNonSpaceChar(l) = -1
IsCommentLine(l) == ~IsBlankLine(l) /\ At(l, indexOfNonSpaceChar(l)) = CharComment
HasQuote(s) == indexOfChars(s, {CharDoubleQuote, CharSingleQuote}) # -1

MalformedLine(l) == ~IsBlankLine(l) /\ ~IsCommentLine(l) /\ SepIndex(l) = -1

\* C5: if any non-blank, non-comment line of the input (no quoted values involved)
\* has no "=" or ":" separator, parseEnvFileBytes returns an error and a map with no
\* entries, wherever that line stands; and a returned key never spans a line break.
C5_MalformedLineInvalidatesFile ==
    (fpc = "done" /\ ~HasQuote(input)) =>
        /\ (\E i \in 1 .. Len(SplitLines(input)) : MalformedLine(SplitLines(input)[i]))
              => (ferr # ErrNil /\ envMap = EmptyMap)
        /\ \A k \in DOMAIN envMap : indexOfChar(k, NL) = -1

\* The unescaping the claim describes: \n, \r, \\ and \x for any other x.
RECURSIVE ClaimedUnescape(_)
ClaimedUnescape(s) ==
    IF Len(s) = 0 THEN <<>>
    ELSE IF s[1] = BS /\ Len(s) >= 2
         THEN (IF s[2] = "n" THEN <<NL>> ELSE IF s[2] = "r" THEN <<CR>> ELSE <<s[2]>>)
                  \o ClaimedUnescape(SubSeq(s, 3, Len(s)))
         ELSE <<s[1]>> \o ClaimedUnescape(Tail(s))

\* positions of the quotes that can close the value opened by s[0]
ClosingQuotes(s) == {i \in 1 .. Len(s) - 1 : At(s, i) = At(s, 0) /\ At(s, i - 1) # BS}

\* C6: a quoted value is the content strictly between the opening quote and the
\* first later unescaped quote of the same kind, taken literally for single quotes
\* and unescaped for double quotes; the remainder starts just after the closing
\* quote; with no closing quote the parse fails.
C6_QuotedValueIsContent ==
    (fpc = "valueDone") =>
        IF ClosingQuotes(input) = {} THEN gres.err # ErrNil
        ELSE LET j == SetMin(ClosingQuotes(input))
                 content == Slice(input, 1, j)
             IN  /\ gres.err = ErrNil
                 /\ gres.rest = From(input, j + 1)
                 /\ gres.value = IF At(input, 0) = CharDoubleQuote
                                 THEN ClaimedUnescape(content) ELSE content

\* a line holding a pair whose key starts with a lowercase letter, a digit or "_"
BadKeyLine(l) ==
    /\ ~IsBlankLine(l) /\ SepIndex(l) # -1
    /\ At(l, indexOfNonSpaceChar(l)) \in LowerLetters \cup DigitSet \cup {"_"}

\* C18: every key of a map returned without error is non-empty and starts with an
\* uppercase letter, and an input with a pair whose key starts with a lowercase
\* letter, a digit or an underscore makes the parse return an error.
C18_KeysStartUppercase ==
    (fpc = "done" /\ ~HasQuote(input)) =>
        /\ ferr = ErrNil => \A k \in DOMAIN envMap : k # <<>> /\ IsUpperLetter(At(k, 0))
        /\ (\E i \in 1 .. Len(SplitLines(input)) : BadKeyLine(SplitLines(input)[i]))
              => ferr # ErrNil

\* C16: whitespace before the key, between key and separator, between separator
\* and value, or after the value does not change the parsed key or the parsed value,
\* for unquoted, single-quoted and double-quoted values.
C16_PaddingIgnored ==
    (fpc = "lineDone") =>
        \A w \in [1 .. 4 -> Paddings], sep \in LineSeparators, value \in LineValues :
            input = Padded(w, sep, value) =>
                /\ gres.err = ErrNil
                /\ gres.key = getKeyValue(<<"A">> \o sep \o value).key
                /\ gres.value = getKeyValue(<<"A">> \o sep \o value).value

Blank == {SP, TAB}

\* the text after "A=", up to the end of its line
FirstLine(t) == IF indexOfChar(t, NL) = -1 THEN t ELSE Slice(t, 0, indexOfChar(t, NL))

\* where the trailing comment of an unquoted line starts: the first "#" preceded by
\* whitespace, or the end of the line
CommentStart(line) ==
    IF \E i \in 1 .. Len(line) - 1 : At(line, i) = CharComment /\ At(line, i - 1) \in Blank
    THEN SetMin({i \in 1 .. Len(line) - 1 : At(line, i) = CharComment /\ At(line, i - 1) \in Blank})
    ELSE Len(line)

IsQuoted(t) == Len(t) > 0 /\ At(t, 0) \in {CharSingleQuote, CharDoubleQuote}

\* C17: in an unquoted value a "#" preceded by whitespace starts a trailing comment,
\* any other "#" is part of the value, and the value is the text from the separator
\* to the end of line, end of buffer or comment start, trimmed; a "#" inside a
\* quoted value is literal.
C17_TrailingComment ==
    (fpc = "lineDone" /\ HasPrefix(input, <<"A", "=">>)) =>
        LET t == From(input, 2)
        IN  IF ~IsQuoted(t)
            THEN /\ gres.err = ErrNil
                 /\ gres.value = TrimFunc(Slice(FirstLine(t), 0, CommentStart(FirstLine(t))), Blank)
            ELSE ClosingQuotes(t) # {} =>
                     /\ gres.err = ErrNil
                     /\ gres.value = Slice(t, 1, SetMin(ClosingQuotes(t)))

\* "A=x #x" gives x
C17_Witness ==
    /\ fpc = "lineDone"
    /\ input = <<"A", "=", "x", SP, CharComment, "x">>
    /\ gres.value = <<"x">>

IsSuffixOf(t, s) == Len(t) <= Len(s) /\ From(s, Len(s) - Len(t)) = t

\* only whitespace, newlines and comment lines remain in s
OnlyBlanksAndComments(s) ==
    \A j \in 1 .. Len(SplitLines(s)) :
        IsBlankLine(SplitLines(s)[j]) \/ IsCommentLine(SplitLines(s)[j])

\* what getStart gives for the remainder of the loop
StartOfRemainder ==
    (fpc = "loop") =>
        /\ IsSuffixOf(src, input)
        /\ getStart(src) = <<>> <=> OnlyBlanksAndComments(src)
        /\ getStart(src) # <<>> =>
              /\ IsSuffixOf(getStart(src), src)
              /\ At(getStart(src), 0) \notin UnicodeSpace \cup {CharComment}

----------------------------------------------------------------------------
(* Claims about the struct binder *)

Fields == cfgType.fields

\* field i of the target was processed without an error / returned the call's error
FieldOK(i) == bidx > i
FieldFailed(i) == bpc = "done" /\ berr # NoErr /\ bidx = i
FieldEnded(i) == FieldOK(i) \/ FieldFailed(i)

OwnKeyOf(sf) == sf.env[1]
FlagsOf(sf) == {sf.env[j] : j \in 2 .. Len(sf.env)}
FullKeyOf(sf) == callOpts.Prefix \o OwnKeyOf(sf)

\* ignored as the documentation has it: env:"-", or neither an env nor an envPrefix tag
DocIgnored(sf) == (sf.hasEnv /\ OwnKeyOf(sf) = <<"-">>) \/ (~sf.hasEnv /\ ~sf.hasPrefix)

\* the mapping's value for the full key when present and non-empty, else the default
ValueLookedUp(sf) ==
    IF FullKeyOf(sf) \in DOMAIN callOpts.Env /\ callOpts.Env[FullKeyOf(sf)] # <<>>
    THEN callOpts.Env[FullKeyOf(sf)] ELSE sf.envDefault

\* ... after any expansion, for a field with no value resolved before it
ValueResolved(sf) ==
    IF ExpandEnv \in FlagsOf(sf) THEN Expand(ValueLookedUp(sf), EmptyMap, callOpts.Env)
    ELSE ValueLookedUp(sf)

RequiredError(sf) == Err("required environment variable not set: ", FullKeyOf(sf))

\* a string field with a non-empty own key whose value depends on the call's inputs only
ResolvesAlone(i) ==
    /\ FieldEnded(i)
    /\ Fields[i].type = StringT /\ ~DocIgnored(Fields[i]) /\ OwnKeyOf(Fields[i]) # <<>>
    /\ (i = 1 \/ ExpandEnv \notin FlagsOf(Fields[i]))

\* C1 (as amended): the resolved value of a non-ignored field with a non-empty own
\* key is the mapping's value for prefix + own key when present and non-empty, and
\* otherwise the envDefault; a required field fails with the error naming the full
\* key exactly when that value, after any expansion, is empty; otherwise the field
\* holds the value, or is left alone when the value is empty.
C1_ResolvedValueAndRequired ==
    \A i \in 1 .. Len(Fields) :
        ResolvesAlone(i) =>
            IF RequiredEnv \in FlagsOf(Fields[i]) /\ ValueResolved(Fields[i]) = <<>>
            THEN FieldFailed(i) /\ berr = RequiredError(Fields[i])
            ELSE /\ FieldOK(i)
                 /\ target[i] = IF ValueResolved(Fields[i]) = <<>> THEN before[i]
                                ELSE ValueResolved(Fields[i])

\* a required field took its non-empty default because the mapping has no such key
C1_Witness ==
    /\ ResolvesAlone(1) /\ FieldOK(1)
    /\ RequiredEnv \in FlagsOf(Fields[1]) /\ Fields[1].envDefault = <<"d">>
    /\ FullKeyOf(Fields[1]) \notin DOMAIN callOpts.Env
    /\ target[1] = <<"d">>

\* C1 (as stated): the same, and hence a non-empty default satisfies required, and
\* required with no value in the mapping and no default always fails.
C1_NonEmptyDefaultSatisfiesRequired ==
    /\ C1_ResolvedValueAndRequired
    /\ \A i \in 1 .. Len(Fields) :
          (ResolvesAlone(i) /\ RequiredEnv \in FlagsOf(Fields[i])) =>
              /\ Fields[i].envDefault # <<>> => FieldOK(i)
              /\ (Fields[i].envDefault = <<>> /\ FullKeyOf(Fields[i]) \notin DOMAIN callOpts.Env)
                    => FieldFailed(i)

\* the positional prefix of a slice-of-structs field
PositionalPrefix(sf) == ensureTrailingUnderscore(callOpts.Prefix \o sf.envPrefix)

IndexRange == -2 .. 3

\* the integers i for which the mapping has a key of the form P + i + "_" + rest
IndicesInMapping(P) ==
    {i \in IndexRange :
        \E k \in DOMAIN callOpts.Env :
            HasPrefix(k, P \o Itoa(i) \o <<"_">>) /\ Len(k) > Len(P \o Itoa(i) \o <<"_">>)}

\* element i of the slice before the call, or the zero value beyond its length
ElemBefore(old, i) == IF i >= 0 /\ i < Len(old) THEN old[i + 1] ELSE Zero(InnerT)

\* an Inner (Foo `env:"F"`) bound with the given prefix, starting from elem
InnerBound(prefix, elem) ==
    <<IF MapGet(callOpts.Env, prefix \o <<"F">>) # <<>>
      THEN MapGet(callOpts.Env, prefix \o <<"F">>) ELSE elem[1]>>

\* C2: for a slice-of-structs field with positional prefix P and I the integers i
\* with a key P + i + "_" + rest in the mapping: if I is empty the field is
\* unchanged, else after a successful bind its length is max(previous length,
\* max(I) + 1) and every element i in I has been bound with prefix P + i + "_".
C2_SliceLengthAndElements ==
    (FieldOK(2) /\ Fields[2].type = SliceT(InnerT) /\ ~DocIgnored(Fields[2])) =>
        LET P == PositionalPrefix(Fields[2])
            I == IndicesInMapping(P)
            prev == Len(before[2])
        IN  IF I = {} THEN target[2] = before[2]
            ELSE /\ Len(target[2]) = (IF prev > SetMax(I) + 1 THEN prev ELSE SetMax(I) + 1)
                 /\ \A i \in I :
                       /\ i >= 0 /\ i < Len(target[2])
                       /\ target[2][i + 1] =
                             InnerBound(P \o Itoa(i) \o <<"_">>, ElemBefore(before[2], i))

\* C3: with expand, a ${NAME} reference in a field's value is replaced by the value
\* resolved earlier in the same call for the field with own key NAME (its default
\* included) or, failing that, by the mapping's value for NAME, for every entry point.
C3_ExpandSeesEarlierValues ==
    LET earlier == [k \in {OwnKeyOf(Fields[1])} |-> target[1]]
        val == Expand(ValueLookedUp(Fields[2]), earlier, callOpts.Env)
    IN  (/\ FieldOK(2) /\ Fields[1].type = StringT /\ Fields[2].type = StringT
         /\ ExpandEnv \in FlagsOf(Fields[2]) /\ val # Overflow)
            => target[2] = IF val = <<>> THEN before[2] ELSE val

\* C7: a field whose env key is "-", or that has neither an env nor an envPrefix
\* tag, is ignored entirely: the parse never sets it, never recurses into it and
\* never returns an error because of it, whatever its type and other tags.
C7_IgnoredFieldUntouched ==
    (FieldEnded(2) /\ DocIgnored(Fields[2])) => (FieldOK(2) /\ target[2] = before[2])

\* C8: a non-ignored field that is not required and whose resolved value is empty is
\* left as it was; in particular a nil pointer, to a scalar or to a struct, that is
\* not tagged init is still nil after the parse.
C8_EmptyValueLeavesField ==
    (/\ FieldOK(2) /\ ~DocIgnored(Fields[2])
     /\ RequiredEnv \notin FlagsOf(Fields[2]) /\ ExpandEnv \notin FlagsOf(Fields[2])
     /\ ValueLookedUp(Fields[2]) = <<>>) =>
        /\ Fields[2].type = StringT => target[2] = before[2]
        /\ (/\ Fields[2].type.k = "ptr" /\ Fields[2].type.elem.k \in {"string", "struct"}
            /\ before[2].isNil /\ InitEnv \notin FlagsOf(Fields[2]))
              => target[2].isNil

\* the index set the code scanned for the slice-of-structs field sf
ScannedSet(sf) == filterPrefixedEnvVars([callOpts EXCEPT !.Prefix = PositionalPrefix(sf)])

\* a slice-of-structs field that a successful bind rebuilt
Rebuilt(i) ==
    /\ FieldOK(i) /\ isSliceOfStructs(Fields[i]) /\ ~parseFieldTags(Fields[i], callOpts).Ignored
    /\ ScannedSet(Fields[i]) # {}

\* the slice a field of type []T or *[]T holds (none behind a nil pointer)
SliceOf(sf, v) == IF sf.type.k = "ptr" THEN (IF v.isNil THEN <<>> ELSE v.elem) ELSE v

\* the elements outside the scanned set are those of old, or zero beyond its length
KeepsElements(i, old) ==
    \A j \in 0 .. Len(SliceOf(Fields[i], target[i])) - 1 :
        j \notin ScannedSet(Fields[i]) =>
            At(SliceOf(Fields[i], target[i]), j) =
                IF j < Len(old) THEN At(old, j) ELSE Zero(sliceElemType(Fields[i]))

\* C9 (as amended): when a []T slice-of-structs field is rebuilt, an element below
\* the previous length that is not in the scanned set keeps its previous value and
\* an index beyond it that is not in the set holds the zero value; a slice reached
\* through a pointer (*[]T) is rebuilt from nothing: every index that is not in the
\* set holds the zero value.
C9_SliceKeepsElements ==
    \A i \in 1 .. Len(Fields) :
        Rebuilt(i) => KeepsElements(i, IF Fields[i].type.k = "ptr" THEN <<>> ELSE before[i])

\* a rebuilt []T with two elements before the call kept the one that was not scanned
C9_Witness ==
    /\ Rebuilt(2) /\ Fields[2].type = SliceT(InnerT)
    /\ Len(before[2]) = 2 /\ ScannedSet(Fields[2]) = {0}
    /\ Len(target[2]) = 2 /\ target[2][2] = OldElem(1)

\* C9 (as stated): pre-existing elements are copied to their positions both for []T
\* fields and for fields that reach the slice through a pointer (*[]T).
C9_PointerSliceKeepsElements ==
    \A i \in 1 .. Len(Fields) :
        Rebuilt(i) => KeepsElements(i, SliceOf(Fields[i], before[i]))

\* C11: ParseFromFileIntoStruct / ParseFromFilesIntoStruct take every value from
\* the merged file map (or the field's default) and leave the process environment
\* as it was, whatever options the tags carry.
C11_FileBindLeavesProcessEnv ==
    (entry = "ParseFromFileIntoStruct") =>
        /\ procEnv = procBefore
        /\ \A i \in 1 .. Len(Fields) :
              (FieldOK(i) /\ Fields[i].type = StringT /\ ExpandEnv \notin FlagsOf(Fields[i]))
                  => target[i] \in {before[i], Fields[i].envDefault,
                                    MapGet(callOpts.Env, FullKeyOf(Fields[i]))}

\* C12: an envPrefix tag applies to the field's own lookup key: a field with env
\* key K and envPrefix P, in a context whose accumulated prefix is C, is looked up
\* in the mapping under C + P + K.
C12_OwnKeyTakesEnvPrefix ==
    (/\ FieldOK(2) /\ Fields[2].type = StringT /\ Fields[2].hasEnv /\ Fields[2].hasPrefix
     /\ OwnKeyOf(Fields[2]) \notin {<<>>, <<"-">>}
     /\ RequiredEnv \notin FlagsOf(Fields[2]) /\ ExpandEnv \notin FlagsOf(Fields[2])) =>
        LET key == callOpts.Prefix \o Fields[2].envPrefix \o OwnKeyOf(Fields[2])
            val == IF MapGet(callOpts.Env, key) # <<>> THEN MapGet(callOpts.Env, key)
                   ELSE Fields[2].envDefault
        IN  target[2] = IF val = <<>> THEN before[2] ELSE val

\* the prefix under which the elements of a slice of structs are numbered
SlicePrefix(p, underscored) ==
    IF underscored /\ p # <<>> /\ p[Len(p)] # "_" THEN p \o <<"_">> ELSE p

RECURSIVE LeafPairs(_, _, _, _)
RECURSIVE FieldPairs(_, _, _, _)

\* The string leaves under field f holding fv that have a key of their own, each with
\* the lookup key that prefix propagation gives it: <<key, value held>>
FieldPairs(f, fv, prefix, underscored) ==
    CASE f.type.k = "string" ->
            IF f.hasEnv /\ OwnKeyOf(f) # <<"-">> THEN {<<prefix \o OwnKeyOf(f), fv>>} ELSE {}
      [] f.type.k = "struct" -> LeafPairs(f.type, fv, prefix \o f.envPrefix, underscored)
      [] f.type.k = "ptr" /\ f.type.elem.k = "struct" ->
            IF fv.isNil THEN {}
            ELSE LeafPairs(f.type.elem, fv.elem, prefix \o f.envPrefix, underscored)
      [] f.type.k = "slice" /\ f.type.elem.k = "struct" ->
            UNION {LeafPairs(f.type.elem, fv[j],
                             SlicePrefix(prefix \o f.envPrefix, underscored)
                                 \o Itoa(j - 1) \o <<"_">>, underscored) :
                   j \in 1 .. Len(fv)}
      [] OTHER -> {}

LeafPairs(t, sv, prefix, underscored) ==
    UNION {FieldPairs(t.fields[i], sv[i], prefix, underscored) : i \in 1 .. Len(t.fields)}

\* field i is not ignored, started with empty leaves and has no default and no expansion
PlainLeaves(i) ==
    /\ ~DocIgnored(Fields[i])
    /\ Fields[i].envDefault = <<>> /\ ExpandEnv \notin FlagsOf(Fields[i])
    /\ \A pr \in FieldPairs(Fields[i], before[i], <<>>, FALSE) : pr[2] = <<>>

\* every leaf holds the mapping's value for its key, and nothing else
LeavesFollowKeys(i, underscored) ==
    \A pr \in FieldPairs(Fields[i], target[i], callOpts.Prefix, underscored) :
        pr[2] = MapGet(callOpts.Env, pr[1])

\* C13 (as amended): the lookup key of a field nested under struct or
\* pointer-to-struct fields is the Options prefix, then the envPrefix of every
\* enclosing field, outermost first, then the own key; for element i of a slice of
\* structs the segment i + "_" follows the slice field's prefix, to which "_" is
\* appended first when it is non-empty and does not end with "_".
C13_PrefixPropagation ==
    \A i \in 1 .. Len(Fields) :
        (FieldOK(i) /\ PlainLeaves(i)) => LeavesFollowKeys(i, TRUE)

\* a leaf two structs down was bound under Options.Prefix + envPrefix + envPrefix + key
C13_Witness ==
    /\ FieldOK(2) /\ Fields[2].type = OuterT /\ callOpts.Prefix = <<"C", "_">>
    /\ target[2] = <<<<<<"C", "_", "P", "_", "Q", "_", "F">>>>>>

\* C13 (as stated): the same, with the segment i + "_" inserted right after the
\* slice field's prefix as it stands.
C13_SliceSegmentRightAfterPrefix ==
    \A i \in 1 .. Len(Fields) :
        (FieldOK(i) /\ PlainLeaves(i)) => LeavesFollowKeys(i, FALSE)

\* the separators the tags of field sf give: the tag when present and non-empty
SeparatorOf(sf) ==
    IF SeparatorEnv \in DOMAIN sf /\ sf.envSeparator # <<>> THEN sf.envSeparator ELSE <<",">>
KeyValSeparatorOf(sf) ==
    IF KeyValSeparatorEnv \in DOMAIN sf /\ sf.envKeyValSeparator # <<>>
    THEN sf.envKeyValSeparator ELSE <<":">>

\* field i has no default and no expansion, and its key holds a non-empty value
ValueGiven(i) ==
    /\ Fields[i].hasEnv /\ Fields[i].envDefault = <<>> /\ ExpandEnv \notin FlagsOf(Fields[i])
    /\ MapGet(callOpts.Env, FullKeyOf(Fields[i])) # <<>>

\* the parts of the value of field i
PartsOf(i) == Split(MapGet(callOpts.Env, FullKeyOf(Fields[i])), SeparatorOf(Fields[i]))

\* a pair splits into a key and a value, and what they are
SplitsInTwo(pair, kv) == Index(pair, kv) # -1
PairKey(pair, kv) == Slice(pair, 0, Index(pair, kv))
PairValue(pair, kv) == From(pair, Index(pair, kv) + Len(kv))

\* pair j of field i splits and its key and value parse
PairTaken(i, j) ==
    /\ SplitsInTwo(PartsOf(i)[j], KeyValSeparatorOf(Fields[i]))
    /\ ParseKind(Fields[i].type.key, PairKey(PartsOf(i)[j], KeyValSeparatorOf(Fields[i]))).ok
    /\ ParseKind(Fields[i].type.elem, PairValue(PartsOf(i)[j], KeyValSeparatorOf(Fields[i]))).ok

KeyParsed(i, j) ==
    ParseKind(Fields[i].type.key, PairKey(PartsOf(i)[j], KeyValSeparatorOf(Fields[i]))).val
ValueParsed(i, j) ==
    ParseKind(Fields[i].type.elem, PairValue(PartsOf(i)[j], KeyValSeparatorOf(Fields[i]))).val

\* field i is a map whose key and element kinds are in the kind table
ParsedMapField(i) ==
    /\ Fields[i].type.k = "map" /\ HasParser(Fields[i].type.key) /\ HasParser(Fields[i].type.elem)
    /\ ValueGiven(i) /\ FieldEnded(i)

\* C14: a map field's value is split into pairs by envSeparator (default ",") and
\* each pair at envKeyValSeparator (default ":"); when every pair is taken the field
\* holds exactly one entry per distinct key, parsed by the kind table, the last pair
\* of a key winning; when the first pair not taken is one that does not split into
\* key and value, the field fails with a format error naming that pair.
C14_MapFromPairs ==
    \A i \in 1 .. Len(Fields) :
        ParsedMapField(i) =>
            /\ (\A j \in 1 .. Len(PartsOf(i)) : PairTaken(i, j)) =>
                  /\ FieldOK(i)
                  /\ DOMAIN target[i] = {KeyParsed(i, j) : j \in 1 .. Len(PartsOf(i))}
                  /\ \A j \in 1 .. Len(PartsOf(i)) :
                        (\A l \in j + 1 .. Len(PartsOf(i)) : KeyParsed(i, l) # KeyParsed(i, j))
                            => target[i][KeyParsed(i, j)] = ValueParsed(i, j)
            /\ \A j \in 1 .. Len(PartsOf(i)) :
                  (/\ ~SplitsInTwo(PartsOf(i)[j], KeyValSeparatorOf(Fields[i]))
                   /\ \A l \in 1 .. j - 1 : PairTaken(i, l))
                      => /\ FieldFailed(i)
                         /\ berr = Err("should be in key/value format", PartsOf(i)[j])

\* a map[string]int8 bound from "a:1,a:2": one entry, from the last pair
C14_Witness ==
    /\ FieldOK(2) /\ Fields[2].type = MapT(StringT, IntT(8))
    /\ MapGet(callOpts.Env, <<"B">>) = <<"a", ":", "1", ",", "a", ":", "2">>
    /\ target[2] = [k \in {<<"a">>} |-> 2]

\* field i is a slice of scalar elements, or of pointers to them
ScalarSliceField(i) ==
    /\ Fields[i].type.k = "slice" /\ Fields[i].type.elem.k # "struct"
    /\ ValueGiven(i) /\ FieldEnded(i)

\* the type the parts of slice field i are parsed as
PartType(i) ==
    IF Fields[i].type.elem.k = "ptr" THEN Fields[i].type.elem.elem ELSE Fields[i].type.elem

\* part j parsed as an element of slice field i
ElementParsed(i, j) ==
    IF Fields[i].type.elem.k = "ptr" THEN PtrTo(ParseKind(PartType(i), PartsOf(i)[j]).val)
    ELSE ParseKind(PartType(i), PartsOf(i)[j]).val

\* C15: a scalar-slice field's value is split by envSeparator ("," when the tag is
\* absent or empty) and the field is replaced by a slice with one element per part,
\* the i-th element being the i-th part parsed with the element type's parser; when
\* a part does not parse or the element type has no parser, the field fails.
C15_SliceFromParts ==
    \A i \in 1 .. Len(Fields) :
        ScalarSliceField(i) =>
            IF HasParser(PartType(i))
               /\ \A j \in 1 .. Len(PartsOf(i)) : ParseKind(PartType(i), PartsOf(i)[j]).ok
            THEN /\ FieldOK(i)
                 /\ Len(target[i]) = Len(PartsOf(i))
                 /\ \A j \in 1 .. Len(PartsOf(i)) : target[i][j] = ElementParsed(i, j)
            ELSE FieldFailed(i)

\* a []string that held ["o"] bound from "a;1" under envSeparator ";"
C15_Witness ==
    /\ FieldOK(2) /\ Fields[2].type = SliceT(StringT) /\ SeparatorOf(Fields[2]) = <<";">>
    /\ before[2] = <<<<"o">>>>
    /\ target[2] = <<<<"a">>, <<"1">>>>

\* the lines of file content f that define key, and the value the last of them gives
LinesDefining(f, key) ==
    {j \in 1 .. Len(SplitLines(f)) : SepIndex(SplitLines(f)[j]) # -1
                                       /\ LineKey(SplitLines(f)[j]) = key}
LastValueIn(f, key) == LineValue(SplitLines(f)[SetMax(LinesDefining(f, key))])

\* the files of the call that define key
FilesDefining(key) == {i \in 1 .. Len(files) : LinesDefining(files[i], key) # {}}

\* C19: ParseFromFilesIntoStruct binds, for a key defined in several files, the value
\* of the last file of the argument list that defines it, for a key defined in one
\* file that file's value, and within a file the value of the last line defining
\* the key.
C19_LastDefinitionBound ==
    (/\ entry = "ParseFromFilesIntoStruct" /\ mpc = "done"
     /\ \A i \in 1 .. Len(files) : files[i] # <<>>) =>
        /\ merr = ErrNil /\ berr = NoErr
        /\ \A n \in 1 .. Len(Fields) :
              target[n] = IF FilesDefining(OwnKeyOf(Fields[n])) = {} THEN <<>>
                          ELSE LastValueIn(files[SetMax(FilesDefining(OwnKeyOf(Fields[n])))],
                                           OwnKeyOf(Fields[n]))

\* the pairs of file i as parsed
PairsOf(i) == parseFile(files[i]).envMap

\* the positions of calls at which the callback returned an error
FailedCalls == {p \in 1 .. Len(calls) : calls[p][2] \in failOn}

\* C20: in callback mode the callback is invoked once per pair of a file's map and
\* only for a file that has parsed; once an invocation returns an error no further
\* invocation happens, no later file is opened and that error is returned; without
\* one, every pair of every file is delivered by the time the call returns.
C20_CallbackPerPair ==
    (entry = "ParseFromFiles") =>
        /\ \A p \in 1 .. Len(calls) :
              /\ parseFile(files[calls[p][1]]).err = ErrNil
              /\ calls[p][2] \in DOMAIN PairsOf(calls[p][1])
              /\ calls[p][3] = PairsOf(calls[p][1])[calls[p][2]]
              /\ \A q \in p + 1 .. Len(calls) :
                    /\ calls[q][1] >= calls[p][1]
                    /\ <<calls[q][1], calls[q][2]>> # <<calls[p][1], calls[p][2]>>
        /\ \A p \in FailedCalls :
              /\ p = Len(calls)
              /\ mpc = "done" /\ merr = "callback error"
              /\ fileIdx = calls[p][1]
        /\ (mpc = "done" /\ merr = ErrNil) =>
              \A i \in 1 .. Len(files) : \A key \in DOMAIN PairsOf(i) :
                  \E p \in 1 .. Len(calls) : calls[p][1] = i /\ calls[p][2] = key

\* the callback failed on the first file's second pair: the second file was not opened
C20_Witness ==
    /\ entry = "ParseFromFiles" /\ mpc = "done" /\ merr = "callback error"
    /\ Len(files) = 2 /\ fileIdx = 1
    /\ Len(calls) = 2 /\ calls[1][2] = <<"A">> /\ calls[2][2] = <<"B">>

\* C10: every top-level parse call returns, nil or an error, after finitely many
\* steps, also when a value refers to its own key and the field is tagged expand:
\* no call ends with the process aborted by an endless expansion.
C10_CallReturns == bpc # "crashed"

\* field j's key was not looked up: getRawEnv records every name it looks up in
\* Options.rawEnvVars when that map is not nil
NotLookedUp(j) == ~callOpts.rawNil => FullKeyOf(Fields[j]) \notin DOMAIN rawEnvVars

\* what parseField returns for the field that is next
NextFieldResult == parseField(Fields[bidx], target[bidx], callOpts, Shared)

\* C25: the fields are processed in declaration order and the first field that fails ends
\* the call with exactly its error: the fields after it are neither looked up nor
\* modified, and the fields bound before it keep their values.
C25_OrderFailFast ==
    /\ [](bpc = "done" /\ berr # NoErr =>
              /\ bidx \in 0 .. Len(Fields)
              /\ \A j \in bidx + 1 .. Len(Fields) : target[j] = before[j] /\ NotLookedUp(j))
    /\ [](bpc = "parse" => \A j \in bidx + 1 .. Len(Fields) : target[j] = before[j])
    /\ [][bpc = "parse" /\ bidx <= Len(Fields) =>
             /\ \A j \in 1 .. Len(Fields) : j # bidx => target'[j] = target[j]
             /\ \/ bpc' = "parse" /\ bidx' = bidx + 1 /\ berr' = NoErr
                      /\ NextFieldResult.err = NoErr
                \/ bpc' = "done" /\ bidx' = bidx /\ berr' = NextFieldResult.err
                      /\ berr' # NoErr
                \/ bpc' = "crashed"]_vars
    /\ [][bpc = "done" => UNCHANGED <<target, rawEnvVars, berr, bidx, bpc>>]_vars

\* B Strict `envPrefix:"P_"` fails at its field N after its field G was bound; C, which
\* has a value, is neither looked up nor bound
C25_Witness ==
    /\ entry = "Parse" /\ bpc = "done" /\ bidx = 2
    /\ berr = Err("failed to parse value: ", <<"x">>)
    /\ Len(Fields) = 3 /\ Fields[2].type = StrictT
    /\ before[2] = Zero(StrictT) /\ target[2] = <<<<"v">>, 0>>
    /\ MapGet(callOpts.Env, FullKeyOf(Fields[3])) # <<>>
    /\ target[3] = before[3]
    /\ FullKeyOf(Fields[3]) \notin DOMAIN rawEnvVars

\* v is nil, not a pointer, a nil pointer, or points to something that is not a struct
InvalidTarget ==
    \/ arg = NilArg
    \/ arg.k = "value"
    \/ arg.k = "ptr" /\ arg.isNil
    \/ arg.k = "ptr" /\ arg.type.k # "struct"

\* no field of t, at any depth, has an env or envPrefix tag
RECURSIVE Tagless(_)
Tagless(t) ==
    CASE t.k = "struct" ->
            \A i \in 1 .. Len(t.fields) :
                ~t.fields[i].hasEnv /\ ~t.fields[i].hasPrefix /\ Tagless(t.fields[i].type)
      [] t.k \in {"ptr", "slice"} -> Tagless(t.elem)
      [] OTHER -> TRUE

\* C23: Parse and ParseWithOpts return an error and bind nothing when the target is nil,
\* not a pointer, a nil pointer, or a pointer to something that is not a struct; they
\* succeed and leave the struct as it was when the target is a non-nil pointer to a
\* struct without binding tags.
C23_TargetValidation ==
    /\ InvalidTarget => bpc \in {"check", "done"} /\ target = before /\ procEnv = procBefore
    /\ InvalidTarget /\ bpc = "done" =>
           berr = Err("expected a pointer to a valid struct", <<>>)
    /\ ~InvalidTarget /\ Tagless(cfgType) =>
           /\ bpc \in {"check", "parse", "done"}
           /\ berr = NoErr /\ target = before

\* a typed nil pointer to a struct with tags, whose keys are in the mapping, is rejected
C23_Witness ==
    /\ arg = PtrArg(TRUE, TaggedT) /\ bpc = "done"
    /\ berr = Err("expected a pointer to a valid struct", <<>>)
    /\ DOMAIN callOpts.Env = {<<"A">>, <<"B">>}

\* a pointer to a struct without tags that holds values, with its field names as keys of
\* the mapping: the call succeeds and the struct is as it was
C23_TaglessAccepted ==
    /\ arg = PtrArg(FALSE, TaglessT) /\ bpc = "done" /\ berr = NoErr
    /\ before # Zero(TaglessT) /\ target = before
    /\ <<"F", "i", "e", "l", "d">> \in DOMAIN callOpts.Env

\* C21: a second ParseWithOpts call on the struct a successful call left, with the same
\* mapping and prefix, succeeds and leaves the struct as it is.
C21_Idempotent == again.called => again.err = NoErr /\ again.val = target

\* B []string `env:"B"` that held an element was bound to two parts, and the second call
\* left it so
C21_Witness ==
    /\ again.called /\ again.err = NoErr /\ again.val = target
    /\ Fields[2].type = SliceT(StringT)
    /\ before[2] = <<<<"o">>>> /\ Len(target[2]) = 2

\* field i is a slice of scalars, a map, or a slice of structs
IsContainer(sf) == sf.type.k \in {"slice", "map"}

\* field i is a slice of structs, or a pointer to one, without a value of its own: it
\* can only fail in the binding of an element
ElementsOnly(i) ==
    isSliceOfStructs(Fields[i]) /\ ~Fields[i].hasEnv /\ Fields[i].envDefault = <<>>

VariableRemoved(i) ==
    /\ FullKeyOf(Fields[i]) \in DOMAIN procBefore
    /\ FullKeyOf(Fields[i]) \notin DOMAIN procEnv

\* C26: the process variable of a field tagged unset is removed only after the field's
\* value has been set: it stays when the field's conversion fails and when the resolved
\* value is empty.
C26_UnsetAfterSet ==
    \A i \in 1 .. Len(Fields) :
        UnsetEnv \in FlagsOf(Fields[i]) /\ VariableRemoved(i) =>
            FieldOK(i) /\ ValueLookedUp(Fields[i]) # <<>>

\* The part of C26 about empty values: a field tagged unset whose resolved value is empty
\* leaves its variable in place
C26_EmptyValueKeepsVariable ==
    \A i \in 1 .. Len(Fields) :
        UnsetEnv \in FlagsOf(Fields[i]) /\ ValueLookedUp(Fields[i]) = <<>> =>
            ~VariableRemoved(i)

\* field i is neither a slice, a map nor a pointer and its kind has no parser
UnparsedScalar(i) ==
    /\ Fields[i].type.k \notin {"slice", "map", "ptr"}
    /\ ~HasParser(Fields[i].type)

\* field i has a key under which it resolves to a non-empty value
ResolvesNonEmpty(i) ==
    /\ Fields[i].hasEnv
    /\ OwnKeyOf(Fields[i]) \notin {<<>>, <<"-">>}
    /\ ExpandEnv \notin FlagsOf(Fields[i])
    /\ ValueLookedUp(Fields[i]) # <<>>

UnsupportedType(e) == e # NoErr /\ e[1] \in {"unsupported type: ", "unsupported type"}

\* C28: a field that is neither a slice nor a map, resolves to a non-empty value and has
\* a type without a parser is left as it was and the parse reports no error for it; the
\* unsupported-type error is raised only for slice and map fields.
C28_UnparsedScalarSkipped ==
    \A i \in 1 .. Len(Fields) :
        /\ UnparsedScalar(i) /\ ResolvesNonEmpty(i) /\ FieldEnded(i) =>
               FieldOK(i) /\ target[i] = before[i]
        /\ FieldFailed(i) /\ UnsupportedType(berr) => Fields[i].type.k \in {"slice", "map"}

\* C28 as the code has it: such a field fails the call with handleSpecialTypes'
\* unsupported-type error; unless it is a struct, the field is left as it was.
C28_UnparsedScalarFails ==
    \A i \in 1 .. Len(Fields) :
        UnparsedScalar(i) /\ ResolvesNonEmpty(i) /\ FieldEnded(i) =>
            /\ FieldFailed(i)
            /\ berr = Err("unsupported type: ", Fields[i].name)
            /\ Fields[i].type.k # "struct" => target[i] = before[i]

\* B complex128 `env:"B"` with B=v: the call returns the unsupported-type error
C28_Witness ==
    /\ FieldFailed(2) /\ UnsupportedType(berr)
    /\ Fields[2].type = ComplexT
    /\ UnparsedScalar(2) /\ ResolvesNonEmpty(2)
    /\ target[2] = before[2]

----------------------------------------------------------------------------
(* Claims about GenerateOTP *)

\* 10^(k-1) <= v < 10^k
HasDigits(v, k) ==
    /\ ~v.neg
    /\ ~LessMag(v.mag, Pow10Mag(k - 1))
    /\ LessMag(v.mag, Pow10Mag(k))

\* C24: for every length greater than 0 GenerateOTP returns, with an error exactly when
\* the random source fails and otherwise with an OTP of exactly `length` decimal
\* digits (10^(length-1) <= otp < 10^length); for a length of 0 or less it returns an
\* error.
C24_OTPHasLengthDigits ==
    opc # "call" /\ opc # "idle" =>
        IF otpArgs.length > 0
        THEN /\ opc = "done"
             /\ (otpRes.err # ErrNil) = otpArgs.readerFails
             /\ otpRes.err = ErrNil => HasDigits(otpRes.otp, otpArgs.length)
        ELSE opc = "done" /\ otpRes.err # ErrNil

\* The same for the lengths whose power of ten fits an int64
C24_UpTo18Digits ==
    opc # "call" /\ opc # "idle" /\ otpArgs.length <= 18 =>
        IF otpArgs.length > 0
        THEN /\ opc = "done"
             /\ (otpRes.err # ErrNil) = otpArgs.readerFails
             /\ otpRes.err = ErrNil => HasDigits(otpRes.otp, otpArgs.length)
        ELSE opc = "done" /\ otpRes.err # ErrNil

----------------------------------------------------------------------------
(* Claims about the parsers table *)

\* a decimal numeral: digits, or a minus sign and the digits of a number other than 0
IsDecimal(s) ==
    \/ IsDigits(s)
    \/ Len(s) > 1 /\ s[1] = "-" /\ IsDigits(Tail(s)) /\ MagOf(Tail(s)) # <<0>>

NumeralValue(s) == IF s[1] = "-" THEN I64(TRUE, MagOf(Tail(s))) ELSE I64(FALSE, MagOf(s))

\* the width of a kind's type on a 64-bit platform
TypeBits(kind) ==
    CASE kind \in {"int8", "uint8"} -> 8
      [] kind \in {"int16", "uint16"} -> 16
      [] kind \in {"int32", "uint32"} -> 32
      [] kind \in {"int", "uint", "int64", "uint64"} -> 64

\* n is a value of the kind's type
InTypeRange(n, kind) ==
    IF kind \in UintKinds THEN ~n.neg /\ LessMag(n.mag, Pow2Mag(TypeBits(kind)))
    ELSE IF n.neg THEN ~LessMag(Pow2Mag(TypeBits(kind) - 1), n.mag)
    ELSE LessMag(n.mag, Pow2Mag(TypeBits(kind) - 1))

ConvertsWhenInRange(kinds) ==
    ppc = "done" /\ parserArgs.kind \in kinds /\ IsDecimal(parserArgs.v) =>
        /\ parserRes.ok = InTypeRange(NumeralValue(parserArgs.v), parserArgs.kind)
        /\ parserRes.ok => parserRes.val = NumeralValue(parserArgs.v)

\* C29: for every integer kind a decimal string converts, to the number it denotes,
\* exactly when that number is in the range of the kind's type: int8 to int64 and uint8
\* to uint64 at their own width, int and uint at the platform's 64 bits.
C29_ConvertsWhenInRange == ConvertsWhenInRange(IntKinds \cup UintKinds)

\* The same for the kinds of a fixed width
C29_FixedWidthKinds == ConvertsWhenInRange((IntKinds \cup UintKinds) \ {"int", "uint"})

----------------------------------------------------------------------------
(* Claims about calls running at the same time *)

\* what call c returns, and leaves in its struct, when it runs from start to end with the
\* mapping env, nothing else running
Alone(c, env) ==
    parseStruct(running[c].type, running[c].before, EntryOpts(running[c].entry, env, <<>>),
                [vars |-> EmptyMap, environ |-> procBefore])

SameAs(c, r) == running[c].target = r.val /\ running[c].err = r.err

\* the mapping of call c when nothing else runs: the process environment at the start
\* for Parse, the caller's mapping for ParseWithOpts
OwnMapping(c) == IF running[c].entry = "Parse" THEN procBefore ELSE running[c].opts.Env

\* C22: two top-level calls on distinct targets that run at the same time do not affect
\* each other: each returns, and leaves in its struct, what it does when it runs alone,
\* also when it is Parse and when fields are tagged unset.
C22_CallsIndependent ==
    \A c \in DOMAIN running : running[c].pc = "done" => SameAs(c, Alone(c, OwnMapping(c)))

\* C22 as the code has it: a call is not affected by the other once it has its mapping,
\* which for Parse is the process environment at the moment Parse copies it; calls
\* with a mapping of their own are never affected.
C22_IndependentAfterSnapshot ==
    \A c \in DOMAIN running :
        /\ running[c].pc = "done" => SameAs(c, Alone(c, running[c].opts.Env))
        /\ running[c].pc = "done" /\ running[c].entry = "ParseWithOpts" =>
               SameAs(c, Alone(c, OwnMapping(c)))

\* call 1 is Parse with B tagged unset, call 2 is Parse; call 2 copied the environment
\* after call 1 bound A and before it removed B, and bound B although B is gone
C22_Witness ==
    /\ DOMAIN running = {1, 2}
    /\ running[1].entry = "Parse" /\ running[2].entry = "Parse"
    /\ UnsetEnv \in FlagsOf(running[1].type.fields[2])
    /\ running[1].pc = "done" /\ running[2].pc = "done"
    /\ <<"B">> \in DOMAIN procBefore /\ <<"B">> \notin DOMAIN procEnv
    /\ running[2].target[2] = <<"p">>
    /\ SameAs(2, Alone(2, running[2].opts.Env))

====
